---- MODULE Spec2Model ----
(***************************************************************************)
(* The request dispatcher of the QCK JavaScript SDK (HttpClient.request of *)
(* src/src/client.ts) as a state machine: one call through get / post /    *)
(* patch / delete, its attempt loop, the two kinds of sleep, and the error *)
(* taxonomy of errors.ts (src/unnamed/part_002).                           *)
(*                                                                         *)
(* A step of the model is one synchronous segment of the async function:   *)
(* the code that runs between two awaits.                                  *)
(***************************************************************************)
EXTENDS Integers, Sequences, FiniteSets, TLC

(***************************************************************************)
(* Bounds of the model.                                                    *)
(***************************************************************************)
\* Largest configured retry count explored (config.retries).
MaxRetries == 3

(***************************************************************************)
(* Program constants.                                                      *)
(***************************************************************************)
\* Text that the code takes apart or puts together is a sequence of pieces;
\* a slash is a piece of its own.
DEFAULT_BASE_URL == <<"https://api.qck.sh", "/", "api", "/", "v1", "/", "developer">>
DEFAULT_TIMEOUT == 30000
DEFAULT_RETRIES == 3
MAX_RETRY_DELAY_MS == 120000
\* parseRetryAfter's fallback, and RateLimitError's default retryAfter.
DEFAULT_RETRY_AFTER == 60
\* Base and cap of the exponential backoff, client.ts line 158.
BACKOFF_BASE_MS == 1000
BACKOFF_CAP_MS == 10000

\* Math.min
Min(a, b) == IF a <= b THEN a ELSE b

\* 2 ** n for n >= 0
RECURSIVE Pow2(_)
Pow2(n) == IF n <= 0 THEN 1 ELSE 2 * Pow2(n - 1)

(***************************************************************************)
(* Header texts.  A header value is null (header absent) or a string; the  *)
(* string is a sequence of one-character strings so that parseInt can be   *)
(* computed on it the way JavaScript does.                                 *)
(***************************************************************************)
NoHeader == [present |-> FALSE, text |-> <<>>]
Header(s) == [present |-> TRUE, text |-> s]

Digits == {"0", "1", "2", "3", "4", "5", "6", "7", "8", "9"}
DigitVal(c) ==
  CASE c = "0" -> 0 [] c = "1" -> 1 [] c = "2" -> 2 [] c = "3" -> 3
    [] c = "4" -> 4 [] c = "5" -> 5 [] c = "6" -> 6 [] c = "7" -> 7
    [] c = "8" -> 8 [] c = "9" -> 9

\* The Retry-After values a server may send: absent, empty, plain seconds
\* below, at and above the 120 s cap, signed, padded, partly numeric,
\* an HTTP date, and text.
RetryAfterHeaders ==
  { NoHeader,
    Header(<<>>),
    Header(<<"0">>),
    Header(<<"5">>),
    Header(<<"4", "2">>),
    Header(<<"1", "2", "0">>),
    Header(<<"1", "2", "1">>),
    Header(<<"9", "9", "9">>),
    Header(<<"-", "5">>),
    Header(<<"+", "3">>),
    Header(<<" ", "7">>),
    Header(<<"1", "2", "s">>),
    Header(<<"1", ".", "5">>),
    Header(<<"s", "o", "o", "n">>),
    Header(<<"W", "e", "d", ",", " ", "2", "1">>) }

\* StringToNumber's leading-whitespace trim inside parseInt.
RECURSIVE TrimStart(_)
TrimStart(s) == IF s # <<>> /\ Head(s) = " " THEN TrimStart(Tail(s)) ELSE s

\* The longest prefix of s made of decimal digits.
RECURSIVE DigitPrefix(_)
DigitPrefix(s) ==
  IF s # <<>> /\ Head(s) \in Digits THEN <<Head(s)>> \o DigitPrefix(Tail(s)) ELSE <<>>

\* The value of a sequence of decimal digits.
RECURSIVE DigitsValue(_)
DigitsValue(d) ==
  IF d = <<>> THEN 0 ELSE 10 * DigitsValue(SubSeq(d, 1, Len(d) - 1)) + DigitVal(d[Len(d)])

\* parseInt(s, 10): trim, an optional sign, then the longest run of digits;
\* NaN when there is no digit at that point.
parseInt(s) ==
  LET t == TrimStart(s)
      neg == t # <<>> /\ Head(t) = "-"
      u == IF t # <<>> /\ Head(t) \in {"-", "+"} THEN Tail(t) ELSE t
      d == DigitPrefix(u)
  IN IF d = <<>> THEN [nan |-> TRUE, val |-> 0]
     ELSE [nan |-> FALSE, val |-> IF neg THEN 0 - DigitsValue(d) ELSE DigitsValue(d)]

\* A plausible slip: the fallback of 60 is used for every header.
parseRetryAfter_AlwaysDefault(header) == DEFAULT_RETRY_AFTER

\* function parseRetryAfter(header: string | null): number
parseRetryAfter(header) ==
  IF ~header.present \/ header.text = <<>> THEN DEFAULT_RETRY_AFTER
  ELSE LET seconds == parseInt(header.text)
       IN IF seconds.nan THEN DEFAULT_RETRY_AFTER ELSE seconds.val

(***************************************************************************)
(* The error taxonomy (errors.ts).  An error value is a record; name is    *)
(* the class of the value, which instanceof tests.                         *)
(***************************************************************************)
\* new QCKError(message, status, code)
QCKError(message, status, code) ==
  [name |-> "QCKError", message |-> message, status |-> status, code |-> code]

\* new AuthenticationError(message)
AuthenticationError(message) ==
  [name |-> "AuthenticationError", message |-> message, status |-> 401,
   code |-> "AUTHENTICATION_ERROR"]

\* new RateLimitError(message, retryAfter)
RateLimitError(message, retryAfter) ==
  [name |-> "RateLimitError", message |-> message, status |-> 429,
   code |-> "RATE_LIMIT_ERROR", retryAfter |-> retryAfter]

\* new NotFoundError(message)
NotFoundError(message) ==
  [name |-> "NotFoundError", message |-> message, status |-> 404, code |-> "NOT_FOUND"]

\* new ValidationError(message)
ValidationError(message) ==
  [name |-> "ValidationError", message |-> message, status |-> 400,
   code |-> "VALIDATION_ERROR"]

\* The classes that extend QCKError, QCKError included: err instanceof QCKError.
QCKErrorNames ==
  {"QCKError", "AuthenticationError", "RateLimitError", "NotFoundError", "ValidationError"}
InstanceOfQCKError(err) == err.name \in QCKErrorNames

(***************************************************************************)
(* Values the platform throws.                                             *)
(***************************************************************************)
\* fetch rejects with this when the attempt's AbortController aborts.
AbortError == [name |-> "AbortError", message |-> "This operation was aborted"]
\* response.json() rejects with this on a body that is not JSON text.
SyntaxError == [name |-> "SyntaxError", message |-> "Unexpected end of JSON input"]
\* Reading a property of a parsed body that is null.
NullTypeError == [name |-> "TypeError", message |-> "Cannot read properties of null"]
\* What fetch rejects with on a connection failure: an Error, or (from a
\* transport that rejects with a bare string) a value that is no Error.
ConnectionFailures ==
  { [name |-> "TypeError", message |-> "fetch failed"],
    [name |-> "string", message |-> "ECONNRESET"] }

\* err instanceof Error ? err : new Error(String(err))
AsError(err) ==
  IF err.name = "string" THEN [name |-> "Error", message |-> err.message] ELSE err

(***************************************************************************)
(* Responses.  A body is what response.json() has to work on.              *)
(***************************************************************************)
NoError == [present |-> FALSE, code |-> "", message |-> ""]
ApiErrors ==
  { [present |-> TRUE, code |-> "INTERNAL_ERROR", message |-> "Something broke"],
    [present |-> TRUE, code |-> "RATE_LIMIT", message |-> "Slow down"] }

\* Envelope<T>: {success, data, error?}
Envelopes ==
  [kind : {"object"}, success : BOOLEAN, data : {"payload", "null"},
   error : {NoError} \cup ApiErrors]
\* A zero-length body, a body that is no JSON text, and the JSON text null.
OtherBodies ==
  [kind : {"empty", "invalid", "null"}, success : {FALSE}, data : {"null"},
   error : {NoError}]
Bodies == Envelopes \cup OtherBodies

ErrorStatuses == {400, 401, 404, 500}
ContentLengths == {NoHeader, Header(<<"0">>), Header(<<"1", "7">>)}

\* Content-Length frames the body: "0" comes with a zero-length body and
\* another length with a body that is not empty.
Framed(contentLength, b) ==
  \/ ~contentLength.present
  \/ contentLength = Header(<<"0">>) /\ b.kind = "empty"
  \/ contentLength # Header(<<"0">>) /\ b.kind # "empty"

\* What the server can answer.  Fields the code never reads for a status
\* are fixed: a 429's body, the Retry-After of the other statuses.
Responses ==
  [status : {429}, retryAfter : RetryAfterHeaders, contentLength : {NoHeader},
   body : {b \in Envelopes : b.error.code = "RATE_LIMIT" /\ ~b.success /\ b.data = "null"}]
  \cup
  [status : ErrorStatuses, retryAfter : {NoHeader}, contentLength : {NoHeader},
   body : Bodies]
  \cup
  {r \in [status : {200}, retryAfter : {NoHeader}, contentLength : ContentLengths,
          body : Bodies] : Framed(r.contentLength, r.body)}
  \cup
  [status : {204}, retryAfter : {NoHeader}, contentLength : {NoHeader, Header(<<"0">>)},
   body : {b \in OtherBodies : b.kind = "empty"}]

NoResponse ==
  [status |-> 0, retryAfter |-> NoHeader, contentLength |-> NoHeader,
   body |-> [kind |-> "none", success |-> FALSE, data |-> "null", error |-> NoError]]

\* response.ok
Ok(response) == response.status >= 200 /\ response.status < 300

\* await response.json(): the parsed value, or the error it rejects with.
ResponseJson(response) ==
  IF response.body.kind \in {"empty", "invalid"}
  THEN [ok |-> FALSE, err |-> SyntaxError, value |-> response.body]
  ELSE [ok |-> TRUE, err |-> SyntaxError, value |-> response.body]

\* A plausible slip: the body is never read, every error gets the defaults.
mapError_IgnoreBody(response) ==
  LET message == "HTTP " \o ToString(response.status)
      code == "API_ERROR"
  IN CASE response.status = 400 -> ValidationError(message)
       [] response.status = 401 -> AuthenticationError(message)
       [] response.status = 404 -> NotFoundError(message)
       [] response.status = 429 ->
            RateLimitError(message, parseRetryAfter(response.retryAfter))
       [] OTHER -> QCKError(message, response.status, code)

\* A plausible slip: without an error in the body the classes' own default
\* messages are used, not 'HTTP {status}'.
mapError_ClassDefaults(response) ==
  LET parsed == ResponseJson(response)
      hasError == parsed.ok /\ parsed.value.kind = "object" /\ parsed.value.error.present
      message == IF hasError THEN parsed.value.error.message
                 ELSE "HTTP " \o ToString(response.status)
      code == IF hasError THEN parsed.value.error.code ELSE "API_ERROR"
  IN CASE response.status = 400 ->
            ValidationError(IF hasError THEN message ELSE "Validation failed")
       [] response.status = 401 ->
            AuthenticationError(IF hasError THEN message ELSE "Authentication failed")
       [] response.status = 404 ->
            NotFoundError(IF hasError THEN message ELSE "Resource not found")
       [] response.status = 429 ->
            RateLimitError(message, parseRetryAfter(response.retryAfter))
       [] OTHER -> QCKError(message, response.status, code)

\* A plausible slip: the variant is chosen by the code the body carries
\* before the status is looked at.
mapError_ByBodyCode(response) ==
  LET parsed == ResponseJson(response)
      hasError == parsed.ok /\ parsed.value.kind = "object" /\ parsed.value.error.present
      message == IF hasError THEN parsed.value.error.message
                 ELSE "HTTP " \o ToString(response.status)
      code == IF hasError THEN parsed.value.error.code ELSE "API_ERROR"
  IN CASE code = "RATE_LIMIT" ->
            RateLimitError(message, parseRetryAfter(response.retryAfter))
       [] code # "RATE_LIMIT" /\ response.status = 400 -> ValidationError(message)
       [] code # "RATE_LIMIT" /\ response.status = 401 -> AuthenticationError(message)
       [] code # "RATE_LIMIT" /\ response.status = 404 -> NotFoundError(message)
       [] OTHER -> QCKError(message, response.status, code)

\* private async mapError(response): the error built from a non-2xx response.
mapError(response) ==
  LET parsed == ResponseJson(response)
      hasError == parsed.ok /\ parsed.value.kind = "object" /\ parsed.value.error.present
      message == IF hasError THEN parsed.value.error.message
                 ELSE "HTTP " \o ToString(response.status)
      code == IF hasError THEN parsed.value.error.code ELSE "API_ERROR"
  IN CASE response.status = 400 -> ValidationError(message)
       [] response.status = 401 -> AuthenticationError(message)
       [] response.status = 404 -> NotFoundError(message)
       [] response.status = 429 ->
            RateLimitError(message, parseRetryAfter(response.retryAfter))
       [] OTHER -> QCKError(message, response.status, code)

(***************************************************************************)
(* The state of one client and of one call made through it.                *)
(***************************************************************************)
VARIABLES
  config,      \* the config object handed to the constructor
  apiKey,      \* this.apiKey
  baseUrl,     \* this.baseUrl
  timeout,     \* this.timeout
  retries,     \* this.retries, fixed by the constructor
  pc,          \* where the client or its call is: under construction, idle, suspended
  method,      \* the HTTP method of the call
  path,        \* the path argument of the call
  body,        \* whether the caller supplied a body
  params,      \* options.params of the call
  url,         \* the local url of request()
  headers,     \* the local headers of request()
  sent,        \* what fetch was called with, one entry for each call of fetch
  calls,       \* the activations of request() of calls that run side by side
  seen,        \* for each of these calls, what was delivered to it so far
  timerArmed,  \* the timer of the latest attempt is set and has not fired
  facade,      \* the resource method that made the call, and its own promise
  attempt,     \* the loop variable of request()
  response,    \* the response of the attempt under way, once received
  lastError,   \* the local lastError of request()
  sleepMs,     \* the delay of the sleep() the call is suspended in
  fetchCalls,  \* how many times the call has invoked fetch
  sleepCalls,  \* how many times the call has invoked sleep
  hist,        \* for each attempt that has ended: its outcome and the sleep after it
  result       \* how the call settled: returned a value or threw an error

vars ==
  <<config, apiKey, baseUrl, timeout, retries, pc, method, path, body, params, url,
    headers, sent, calls, seen, timerArmed, facade, attempt, response, lastError, sleepMs,
    fetchCalls, sleepCalls, hist, result>>

Methods == {"GET", "POST", "PATCH", "DELETE"}
Undefined == [name |-> "undefined", message |-> ""]
Pending == [kind |-> "pending", value |-> "none", err |-> Undefined]
Returned(v) == [kind |-> "returned", value |-> v, err |-> Undefined]
Thrown(e) == [kind |-> "thrown", value |-> "none", err |-> e]

\* config.retries as the caller may give it: left out, or a number.  The
\* constructor does not validate it, so a negative count is accepted.
NotGiven == [given |-> FALSE, value |-> 0]
Given(n) == [given |-> TRUE, value |-> n]
RetriesConfig == {NotGiven} \cup {Given(n) : n \in (0 - 1)..MaxRetries}

\* this.retries = config.retries ?? DEFAULT_RETRIES
ConstructRetries(cfg) == IF cfg.given THEN cfg.value ELSE DEFAULT_RETRIES

(***************************************************************************)
(* What a resource method hands to the dispatcher.                         *)
(***************************************************************************)
\* The body argument: none, an object of the caller passed as it is (the
\* params, or params.links), or {events: [...]}.
UndefinedBody == [kind |-> "undefined", of |-> "none", events |-> <<>>]
ObjectBody(of) == [kind |-> "object", of |-> of, events |-> <<>>]
EventsBody(events) == [kind |-> "events", of |-> "none", events |-> events]

\* this.client.<verb>(path, body, {params})
DispatcherCall(verb, p, b, q) == [verb |-> verb, path |-> p, body |-> b, params |-> q]
NoDispatcherCall == [verb |-> "none", path |-> <<>>, body |-> UndefinedBody,
                     params |-> [given |-> FALSE, entries |-> <<>>]]

\* No resource method has been called.
NoTrackParams ==
  [link_id |-> "", visitor_id |-> "", session_id |-> "", name |-> "",
   revenue |-> NotGiven, currency |-> "", page_url |-> "", event_data |-> "none"]
NoInvocation ==
  [name |-> "none", id |-> "", params |-> [given |-> FALSE, entries |-> <<>>],
   steps |-> <<>>, period |-> "", track |-> NoTrackParams]
NoFacade ==
  [invocation |-> NoInvocation, call |-> NoDispatcherCall, calls |-> 0,
   result |-> Pending]

\* An optional text of the config: left out, or the pieces of the text.
NoText == [given |-> FALSE, value |-> <<>>]
Text(s) == [given |-> TRUE, value |-> s]

\* s.replace(/\/+$/, ''): the slashes that end s are removed, all of them.
RECURSIVE StripTrailingSlashes(_)
StripTrailingSlashes(s) ==
  IF s # <<>> /\ s[Len(s)] = "/"
  THEN StripTrailingSlashes(SubSeq(s, 1, Len(s) - 1))
  ELSE s

\* The constructor with the key check left out.
HttpClient_NoKeyCheck(cfg) ==
  [thrown |-> FALSE, err |-> Undefined,
   apiKey |-> cfg.apiKey,
   baseUrl |-> StripTrailingSlashes(IF cfg.baseUrl.given THEN cfg.baseUrl.value
                                    ELSE DEFAULT_BASE_URL),
   timeout |-> IF cfg.timeout.given THEN cfg.timeout.value ELSE DEFAULT_TIMEOUT,
   retries |-> ConstructRetries(cfg.retries)]

\* new HttpClient(config): what the constructor throws, or the fields it
\* leaves.  An empty key is the falsy apiKey of `!config.apiKey`.
HttpClient(cfg) ==
  IF cfg.apiKey = ""
  THEN [thrown |-> TRUE, err |-> AuthenticationError("API key is required"),
        apiKey |-> "", baseUrl |-> <<>>, timeout |-> 0, retries |-> 0]
  ELSE [thrown |-> FALSE, err |-> Undefined,
        apiKey |-> cfg.apiKey,
        baseUrl |-> StripTrailingSlashes(IF cfg.baseUrl.given THEN cfg.baseUrl.value
                                         ELSE DEFAULT_BASE_URL),
        timeout |-> IF cfg.timeout.given THEN cfg.timeout.value ELSE DEFAULT_TIMEOUT,
        retries |-> ConstructRetries(cfg.retries)]

\* The values of options.params: Record<string, string | number | boolean | undefined>.
UndefinedValue == [type |-> "undefined", num |-> 0, str |-> "", bool |-> FALSE]
Number(n) == [type |-> "number", num |-> n, str |-> "", bool |-> FALSE]
Str(t) == [type |-> "string", num |-> 0, str |-> t, bool |-> FALSE]
Boolean(b) == [type |-> "boolean", num |-> 0, str |-> "", bool |-> b]

\* String(value)
String(v) ==
  CASE v.type = "number" -> ToString(v.num)
    [] v.type = "string" -> v.str
    [] v.type = "boolean" -> IF v.bool THEN "true" ELSE "false"
    [] OTHER -> "undefined"

\* options?.params: left out, or the entries of the object in their order.
NoParams == [given |-> FALSE, entries |-> <<>>]
Params(entries) == [given |-> TRUE, entries |-> entries]
Entry(k, v) == [key |-> k, value |-> v]

\* buildUrl with every entry of params written to the query.
RECURSIVE SetParams_KeepUndefined(_, _)
SetParams_KeepUndefined(search, entries) ==
  IF entries = <<>> THEN search
  ELSE SetParams_KeepUndefined(
         Append(search, <<entries[1].key, String(entries[1].value)>>), Tail(entries))

\* The loop of buildUrl over Object.entries(params), lines 170-176: an entry
\* whose value is not undefined is set on url.searchParams.  The keys of an
\* object differ, so each set adds a pair.
RECURSIVE SetParams(_, _)
SetParams(search, entries) ==
  IF entries = <<>> THEN search
  ELSE SetParams(
         IF entries[1].value.type # "undefined"
         THEN Append(search, <<entries[1].key, String(entries[1].value)>>)
         ELSE search,
         Tail(entries))

\* private buildUrl(path, params)
buildUrl(p, q) ==
  [href |-> baseUrl \o p,
   search |-> IF q.given THEN SetParams(<<>>, q.entries) ELSE <<>>]

\* The headers with Content-Type set for every request.
RequestHeaders_AlwaysContentType(b) ==
  {<<"X-API-Key", apiKey>>, <<"Accept", "application/json">>,
   <<"Content-Type", "application/json">>}

\* The headers with a body's Content-Type put in place of the others.
RequestHeaders_ContentTypeOnly(b) ==
  IF b THEN {<<"Content-Type", "application/json">>}
  ELSE {<<"X-API-Key", apiKey>>, <<"Accept", "application/json">>}

\* The local headers of request(), lines 68-75, for a call with (b) or
\* without a body.
RequestHeaders(b) ==
  {<<"X-API-Key", apiKey>>, <<"Accept", "application/json">>}
    \cup (IF b THEN {<<"Content-Type", "application/json">>} ELSE {})

\* The body option of fetch, line 87: JSON.stringify(body) when the caller
\* gave a body and undefined otherwise.
NoBody == [present |-> FALSE, text |-> ""]
JSONStringify(b) == [present |-> TRUE, text |-> "{\"url\":\"https://example.com\"}"]
FetchBody(b) == IF b THEN JSONStringify(b) ELSE NoBody

\* The configs of Spec: a key, the default base URL and timeout, any retries.
Configs ==
  [apiKey : {"qck_test_key"}, baseUrl : {NoText}, timeout : {NotGiven},
   retries : RetriesConfig]

\* The fields of the client are those the constructor left for config cfg.
Constructed(cfg) ==
  /\ config = cfg
  /\ apiKey = HttpClient(cfg).apiKey
  /\ baseUrl = HttpClient(cfg).baseUrl
  /\ timeout = HttpClient(cfg).timeout
  /\ retries = HttpClient(cfg).retries

\* No call has been made.
NoCall ==
  /\ method = "none"
  /\ path = <<>>
  /\ body = FALSE
  /\ params = NoParams
  /\ url = [href |-> <<>>, search |-> <<>>]
  /\ headers = {}
  /\ sent = <<>>
  /\ timerArmed = FALSE
  /\ attempt = 0
  /\ response = NoResponse
  /\ lastError = Undefined
  /\ sleepMs = 0
  /\ fetchCalls = 0
  /\ sleepCalls = 0
  /\ hist = <<>>

Init ==
  /\ \E cfg \in Configs : ~HttpClient(cfg).thrown /\ Constructed(cfg)
  /\ pc = "idle"
  /\ NoCall
  /\ calls = <<>>
  /\ seen = <<>>
  /\ facade = NoFacade
  /\ result = Pending

(***************************************************************************)
(* The decisions of request(), as functions of what an attempt saw.        *)
(***************************************************************************)
\* What the code does next: throw err out of request(), return value,
\* sleep ms and then go on to the next attempt, go on to the next attempt
\* at once, or await the body (next names the await).
Decision(act, err, value, ms, sleepKind, le) ==
  [act |-> act, err |-> err, value |-> value, ms |-> ms, sleepKind |-> sleepKind,
   lastError |-> le]
DoThrow(err, le) == Decision("throw", err, "none", 0, "none", le)
DoReturn(value, le) == Decision("return", Undefined, value, 0, "none", le)
DoSleep(ms, kind, le) == Decision("sleep", Undefined, "none", ms, kind, le)
DoContinue(le) == Decision("continue", Undefined, "none", 0, "none", le)
DoAwait(next, le) == Decision(next, Undefined, "none", 0, "none", le)

\* A plausible slip: the 120 s cap is left out.
RateLimitDelay_NoCap(retryAfter) == retryAfter * 1000

\* Math.min(retryAfter * 1000, MAX_RETRY_DELAY_MS), line 97
RateLimitDelay(retryAfter) == Min(retryAfter * 1000, MAX_RETRY_DELAY_MS)

\* A plausible slip: the backoff keeps a count of its own, so the exponent
\* is the number of earlier attempts that were not answered with a 429.
BackoffDelay_OwnCounter(a) ==
  Min(BACKOFF_BASE_MS
        * Pow2(Cardinality({i \in 1..Len(hist) : hist[i].outcome # "429"})),
      BACKOFF_CAP_MS)

\* Math.min(1000 * 2 ** attempt, 10_000), line 158
BackoffDelay(a) == Min(BACKOFF_BASE_MS * Pow2(a), BACKOFF_CAP_MS)

\* A plausible slip: no attempt is taken to be the last, the bound of the
\* for loop alone ends the call.
Exhausted_Never(a) == FALSE

\* A plausible slip: the last attempt is taken to be the one after retries.
Exhausted_OffByOne(a) == a > retries

\* attempt >= this.retries: no attempt is left after this one.
Exhausted(a) == a >= retries

\* A plausible slip: on the last attempt the underlying network error is
\* thrown as it is, not wrapped in a QCKError.
Catch_ThrowRawNetworkError(err, a, le) ==
  IF err.name = "RateLimitError" /\ Exhausted(a) THEN DoThrow(err, le)
  ELSE IF InstanceOfQCKError(err) THEN DoThrow(err, le)
  ELSE IF err.name = "AbortError"
  THEN LET timedOut == QCKError("Request timed out", 0, "TIMEOUT")
       IN IF Exhausted(a) THEN DoThrow(timedOut, timedOut) ELSE DoContinue(timedOut)
  ELSE LET e == AsError(err)
       IN IF Exhausted(a) THEN DoThrow(e, e) ELSE DoSleep(BackoffDelay(a), "backoff", e)

\* A plausible slip: server errors (5xx) are retried with backoff like
\* connection failures.
Catch_Retry5xx(err, a, le) ==
  IF err.name = "RateLimitError" /\ Exhausted(a) THEN DoThrow(err, le)
  ELSE IF InstanceOfQCKError(err) /\ (err.status < 500 \/ Exhausted(a)) THEN DoThrow(err, le)
  ELSE IF err.name = "AbortError"
  THEN LET timedOut == QCKError("Request timed out", 0, "TIMEOUT")
       IN IF Exhausted(a) THEN DoThrow(timedOut, timedOut) ELSE DoContinue(timedOut)
  ELSE LET e == AsError(err)
       IN IF Exhausted(a)
          THEN DoThrow(QCKError("Network error: " \o e.message, 0, "NETWORK_ERROR"), e)
          ELSE DoSleep(BackoffDelay(a), "backoff", e)

\* The catch block with the AbortError branch left out: a timeout is
\* handled as any other failure of fetch.
Catch_TimeoutAsNetworkError(err, a, le) ==
  IF err.name = "RateLimitError" /\ Exhausted(a) THEN DoThrow(err, le)
  ELSE IF InstanceOfQCKError(err) THEN DoThrow(err, le)
  ELSE LET e == AsError(err)
       IN IF Exhausted(a)
          THEN DoThrow(QCKError("Network error: " \o e.message, 0, "NETWORK_ERROR"), e)
          ELSE DoSleep(BackoffDelay(a), "backoff", e)

\* A plausible slip: a network error is slept on and retried without asking
\* whether the attempt was the last one.
Catch_BackoffOnLast(err, a, le) ==
  IF err.name = "RateLimitError" /\ Exhausted(a) THEN DoThrow(err, le)
  ELSE IF InstanceOfQCKError(err) THEN DoThrow(err, le)
  ELSE IF err.name = "AbortError"
  THEN LET timedOut == QCKError("Request timed out", 0, "TIMEOUT")
       IN IF Exhausted(a) THEN DoThrow(timedOut, timedOut) ELSE DoContinue(timedOut)
  ELSE DoSleep(BackoffDelay(a), "backoff", AsError(err))

\* The catch block of the attempt loop, lines 128-159, entered with err.
Catch(err, a, le) ==
  IF err.name = "RateLimitError" /\ Exhausted(a) THEN DoThrow(err, le)
  ELSE IF InstanceOfQCKError(err) THEN DoThrow(err, le)
  ELSE IF err.name = "AbortError"
  THEN LET timedOut == QCKError("Request timed out", 0, "TIMEOUT")
       IN IF Exhausted(a) THEN DoThrow(timedOut, timedOut) ELSE DoContinue(timedOut)
  ELSE LET e == AsError(err)
       IN IF Exhausted(a)
          THEN DoThrow(QCKError("Network error: " \o e.message, 0, "NETWORK_ERROR"), e)
          ELSE DoSleep(BackoffDelay(a), "backoff", e)

\* A plausible slip: a 429 is slept on while attempt <= retries, the last
\* attempt included.
OnResponse_SleepOnLast(r, a, le) ==
  IF r.status = 429
  THEN LET retryAfter == parseRetryAfter(r.retryAfter)
       IN IF a <= retries
          THEN DoSleep(RateLimitDelay(retryAfter), "rateLimit", le)
          ELSE Catch(RateLimitError("Rate limit exceeded", retryAfter), a, le)
  ELSE IF ~Ok(r) THEN DoAwait("mapError", le)
  ELSE IF r.status = 204 \/ r.contentLength = Header(<<"0">>)
  THEN DoReturn("undefined", le)
  ELSE DoAwait("json", le)

\* A plausible slip: the 429 of the last attempt is handed to mapError like
\* any other error status.
OnResponse_LastRateLimitMapped(r, a, le) ==
  IF r.status = 429 /\ a < retries
  THEN DoSleep(RateLimitDelay(parseRetryAfter(r.retryAfter)), "rateLimit", le)
  ELSE IF ~Ok(r) THEN DoAwait("mapError", le)
  ELSE IF r.status = 204 \/ r.contentLength = Header(<<"0">>)
  THEN DoReturn("undefined", le)
  ELSE DoAwait("json", le)

\* A plausible slip: response.ok is not looked at, the body of any response
\* other than a 429 is read as the result.
OnResponse_NoOkCheck(r, a, le) ==
  IF r.status = 429
  THEN LET retryAfter == parseRetryAfter(r.retryAfter)
       IN IF a < retries
          THEN DoSleep(RateLimitDelay(retryAfter), "rateLimit", le)
          ELSE Catch(RateLimitError("Rate limit exceeded", retryAfter), a, le)
  ELSE IF r.status = 204 \/ r.contentLength = Header(<<"0">>)
  THEN DoReturn("undefined", le)
  ELSE DoAwait("json", le)

\* Lines 91-117: from the response of fetch to the next await, return or throw.
OnResponse(r, a, le) ==
  IF r.status = 429
  THEN LET retryAfter == parseRetryAfter(r.retryAfter)
       IN IF a < retries
          THEN DoSleep(RateLimitDelay(retryAfter), "rateLimit", le)
          ELSE Catch(RateLimitError("Rate limit exceeded", retryAfter), a, le)
  ELSE IF ~Ok(r) THEN DoAwait("mapError", le)
  ELSE IF r.status = 204 \/ r.contentLength = Header(<<"0">>)
  THEN DoReturn("undefined", le)
  ELSE DoAwait("json", le)

\* A plausible slip: the envelope-level failure is thrown as a plain Error,
\* which the catch block takes for a network error.
OnJson_PlainError(r, a, le) ==
  LET parsed == ResponseJson(r)
  IN IF ~parsed.ok THEN Catch(parsed.err, a, le)
     ELSE IF parsed.value.kind = "null" THEN Catch(NullTypeError, a, le)
     ELSE IF ~parsed.value.success /\ parsed.value.error.present
     THEN Catch([name |-> "Error", message |-> parsed.value.error.message], a, le)
     ELSE DoReturn(parsed.value.data, le)

\* A plausible slip: success = false fails the call even without an error
\* field.
OnJson_FailOnUnsuccessful(r, a, le) ==
  LET parsed == ResponseJson(r)
  IN IF ~parsed.ok THEN Catch(parsed.err, a, le)
     ELSE IF parsed.value.kind = "null" THEN Catch(NullTypeError, a, le)
     ELSE IF ~parsed.value.success
     THEN Catch(QCKError(parsed.value.error.message, r.status, parsed.value.error.code),
                a, le)
     ELSE DoReturn(parsed.value.data, le)

\* A plausible slip: the envelope is returned whole, not its data field.
OnJson_ReturnEnvelope(r, a, le) ==
  LET parsed == ResponseJson(r)
  IN IF ~parsed.ok THEN Catch(parsed.err, a, le)
     ELSE IF parsed.value.kind = "null" THEN Catch(NullTypeError, a, le)
     ELSE IF ~parsed.value.success /\ parsed.value.error.present
     THEN Catch(QCKError(parsed.value.error.message, r.status, parsed.value.error.code),
                a, le)
     ELSE DoReturn("envelope", le)

\* A plausible slip: a body that does not parse ends the call at once with
\* the network error, whatever attempts are left.
OnJson_ParseErrorNotRetried(r, a, le) ==
  LET parsed == ResponseJson(r)
  IN IF ~parsed.ok
     THEN DoThrow(QCKError("Network error: " \o parsed.err.message, 0, "NETWORK_ERROR"),
                  parsed.err)
     ELSE IF parsed.value.kind = "null" THEN Catch(NullTypeError, a, le)
     ELSE IF ~parsed.value.success /\ parsed.value.error.present
     THEN Catch(QCKError(parsed.value.error.message, r.status, parsed.value.error.code),
                a, le)
     ELSE DoReturn(parsed.value.data, le)

\* Lines 117-127: from the parsed body of a 2xx response to return or throw.
OnJson(r, a, le) ==
  LET parsed == ResponseJson(r)
  IN IF ~parsed.ok THEN Catch(parsed.err, a, le)
     ELSE IF parsed.value.kind = "null" THEN Catch(NullTypeError, a, le)
     ELSE IF ~parsed.value.success /\ parsed.value.error.present
     THEN Catch(QCKError(parsed.value.error.message, r.status, parsed.value.error.code),
                a, le)
     ELSE DoReturn(parsed.value.data, le)

\* Line 108: throw await this.mapError(response).
OnMapError(r, a, le) == Catch(mapError(r), a, le)

(***************************************************************************)
(* The steps of a call.                                                    *)
(***************************************************************************)
\* Line 162: throw lastError ?? new QCKError('Request failed', 0, 'UNKNOWN')
Fallback(le) == IF le = Undefined THEN QCKError("Request failed", 0, "UNKNOWN") ELSE le

\* The head of the for loop, lines 79-89, reached with attempt = a: while
\* a <= this.retries the attempt's fetch is issued and awaited; otherwise
\* the loop is left and line 162 throws.
LoopHead(a, le) ==
  /\ attempt' = a
  /\ lastError' = le
  /\ response' = NoResponse
  /\ sleepMs' = 0
  /\ IF a <= retries
     THEN /\ pc' = "fetch"
          /\ fetchCalls' = fetchCalls + 1
          /\ sent' = Append(sent, [url |-> url', method |-> method',
                                   headers |-> headers', body |-> FetchBody(body')])
          /\ timerArmed' = TRUE
          /\ result' = result
     ELSE /\ pc' = "done"
          /\ fetchCalls' = fetchCalls
          /\ sent' = sent
          /\ timerArmed' = timerArmed
          /\ result' = Thrown(Fallback(le))

\* The attempt's timer once its fetch has settled: clearTimeout (line 91)
\* runs when the fetch resolved, whatever the status; the timer that fired
\* is gone; after a connection failure line 91 is skipped and the timer
\* is left as it is.
TimerAfter(outcome) ==
  IF outcome = "connfail" THEN timerArmed ELSE FALSE

\* A plausible slip: sleep(delay) is called without await, so the loop goes
\* on to the next attempt while the sleep is still running.
Act_SleepNotAwaited(d, r, outcome) ==
  CASE d.act = "throw" ->
         /\ pc' = "done"
         /\ result' = Thrown(d.err)
         /\ hist' = Append(hist, [outcome |-> outcome, sleep |-> "none"])
         /\ lastError' = d.lastError
         /\ response' = r
         /\ timerArmed' = TimerAfter(outcome)
         /\ UNCHANGED <<attempt, sleepMs, fetchCalls, sleepCalls, sent>>
    [] d.act = "return" ->
         /\ pc' = "done"
         /\ result' = Returned(d.value)
         /\ hist' = Append(hist, [outcome |-> outcome, sleep |-> "none"])
         /\ lastError' = d.lastError
         /\ response' = r
         /\ timerArmed' = TimerAfter(outcome)
         /\ UNCHANGED <<attempt, sleepMs, fetchCalls, sleepCalls, sent>>
    [] d.act = "sleep" ->
         /\ sleepCalls' = sleepCalls + 1
         /\ hist' = Append(hist, [outcome |-> outcome, sleep |-> d.sleepKind])
         /\ LoopHead(attempt + 1, d.lastError)
    [] d.act = "continue" ->
         /\ hist' = Append(hist, [outcome |-> outcome, sleep |-> "none"])
         /\ LoopHead(attempt + 1, d.lastError)
         /\ UNCHANGED sleepCalls
    [] OTHER ->
         /\ pc' = d.act
         /\ response' = r
         /\ lastError' = d.lastError
         /\ timerArmed' = TimerAfter(outcome)
         /\ UNCHANGED <<attempt, sleepMs, fetchCalls, sleepCalls, hist, result, sent>>

\* The attempt under way ends with `outcome`, and the code acts on decision d.
Act(d, r, outcome) ==
  CASE d.act = "throw" ->
         /\ pc' = "done"
         /\ result' = Thrown(d.err)
         /\ hist' = Append(hist, [outcome |-> outcome, sleep |-> "none"])
         /\ lastError' = d.lastError
         /\ response' = r
         /\ timerArmed' = TimerAfter(outcome)
         /\ UNCHANGED <<attempt, sleepMs, fetchCalls, sleepCalls, sent>>
    [] d.act = "return" ->
         /\ pc' = "done"
         /\ result' = Returned(d.value)
         /\ hist' = Append(hist, [outcome |-> outcome, sleep |-> "none"])
         /\ lastError' = d.lastError
         /\ response' = r
         /\ timerArmed' = TimerAfter(outcome)
         /\ UNCHANGED <<attempt, sleepMs, fetchCalls, sleepCalls, sent>>
    [] d.act = "sleep" ->
         /\ pc' = IF d.sleepKind = "rateLimit" THEN "sleepRateLimit" ELSE "sleepBackoff"
         /\ sleepMs' = d.ms
         /\ sleepCalls' = sleepCalls + 1
         /\ hist' = Append(hist, [outcome |-> outcome, sleep |-> d.sleepKind])
         /\ lastError' = d.lastError
         /\ response' = r
         /\ timerArmed' = TimerAfter(outcome)
         /\ UNCHANGED <<attempt, fetchCalls, result, sent>>
    [] d.act = "continue" ->
         /\ hist' = Append(hist, [outcome |-> outcome, sleep |-> "none"])
         /\ LoopHead(attempt + 1, d.lastError)
         /\ UNCHANGED sleepCalls
    [] OTHER ->
         /\ pc' = d.act
         /\ response' = r
         /\ lastError' = d.lastError
         /\ timerArmed' = TimerAfter(outcome)
         /\ UNCHANGED <<attempt, sleepMs, fetchCalls, sleepCalls, hist, result, sent>>

\* private async request(method, path, body, options), up to its first await.
request(m, p, b, q) ==
  /\ pc = "idle"
  /\ method' = m
  /\ path' = p
  /\ body' = b
  /\ params' = q
  /\ url' = buildUrl(p, q)
  /\ headers' = RequestHeaders(b)
  /\ UNCHANGED <<config, apiKey, baseUrl, timeout, retries, sleepCalls, hist, calls, seen>>
  /\ LoopHead(0, Undefined)

\* async get(path, options)
get(p, q) == request("GET", p, FALSE, q)

\* async post(path, body, options)
post(p, b, q) == request("POST", p, b, q)

\* async patch(path, body, options)
patch(p, b, q) == request("PATCH", p, b, q)

\* async delete(path, options)
delete(p, q) == request("DELETE", p, FALSE, q)

\* The attempts leave the client's fields, the call's arguments and the
\* locals url and headers as they are.
SameCall ==
  UNCHANGED <<config, apiKey, baseUrl, timeout, retries, method, path, body, params,
              url, headers, calls, seen, facade>>

\* await fetch(...) resolves with response r: lines 91-117.
FetchResolve(r) ==
  /\ pc = "fetch"
  /\ SameCall
  /\ Act(OnResponse(r, attempt, lastError), r,
         IF r.status = 429 THEN "429" ELSE IF Ok(r) THEN "2xx" ELSE "non2xx")

\* The attempt's timer fires and aborts the fetch, which rejects with an
\* AbortError: lines 82 and 138-145.
FetchAbort ==
  /\ pc = "fetch"
  /\ timerArmed
  /\ SameCall
  /\ Act(Catch(AbortError, attempt, lastError), NoResponse, "timeout")

\* The fetch rejects with a connection failure e: lines 147-158.
FetchReject(e) ==
  /\ pc = "fetch"
  /\ SameCall
  /\ Act(Catch(e, attempt, lastError), NoResponse, "connfail")

\* await response.json() of a 2xx response settles: lines 117-127.
JsonSettle ==
  /\ pc = "json"
  /\ SameCall
  /\ Act(OnJson(response, attempt, lastError), response, "2xx")

\* await this.mapError(response) settles: line 108.
MapErrorSettle ==
  /\ pc = "mapError"
  /\ SameCall
  /\ Act(OnMapError(response, attempt, lastError), response, "non2xx")

\* The sleep of line 97 ends: continue, so attempt++ and the loop head.
RateLimitSleepDone ==
  /\ pc = "sleepRateLimit"
  /\ SameCall
  /\ LoopHead(attempt + 1, lastError)
  /\ UNCHANGED <<sleepCalls, hist>>

\* The sleep of line 158 ends: the catch block ends, attempt++ and the loop head.
BackoffSleepDone ==
  /\ pc = "sleepBackoff"
  /\ SameCall
  /\ LoopHead(attempt + 1, lastError)
  /\ UNCHANGED <<sleepCalls, hist>>

\* A timer that was left set fires after its attempt has ended: abort() on
\* the controller of a fetch that has settled changes nothing.
TimerFiresLate ==
  /\ timerArmed
  /\ pc # "fetch"
  /\ timerArmed' = FALSE
  /\ SameCall
  /\ UNCHANGED <<pc, sent, attempt, response, lastError, sleepMs, fetchCalls, sleepCalls,
                 hist, result>>

\* The path of the calls of Spec, which leave options out: path and query
\* take no part in what the attempts do.
LinksPath == <<"/", "links">>

\* In Spec the application calls the four verbs itself, through no
\* resource method.
Next ==
  \/ get(LinksPath, NoParams) /\ UNCHANGED facade
  \/ \E b \in BOOLEAN : post(LinksPath, b, NoParams) /\ UNCHANGED facade
  \/ \E b \in BOOLEAN : patch(LinksPath, b, NoParams) /\ UNCHANGED facade
  \/ delete(LinksPath, NoParams) /\ UNCHANGED facade
  \/ \E r \in Responses : FetchResolve(r)
  \/ FetchAbort
  \/ \E e \in ConnectionFailures : FetchReject(e)
  \/ JsonSettle
  \/ MapErrorSettle
  \/ RateLimitSleepDone
  \/ BackoffSleepDone
  \/ TimerFiresLate

Spec == Init /\ [][Next]_vars

(***************************************************************************)
(* The client from its construction on, and how a call's request is built. *)
(***************************************************************************)
\* config.baseUrl as a caller may give it: left out, bare, and ending in
\* one slash or in several.
BaseUrls ==
  { NoText,
    Text(<<"https://api.test.com">>),
    Text(<<"https://api.test.com", "/">>),
    Text(<<"https://api.test.com", "/", "v2", "/", "/", "/">>) }

\* The configs handed to the constructor: with and without a key, with a
\* timeout of zero and a negative retry count, which the code does not check.
RequestConfigs ==
  [apiKey : {"", "qck_test_key", "qck_other_key"}, baseUrl : BaseUrls,
   timeout : {NotGiven, Given(0)},
   retries : {Given(0 - 1), Given(0), Given(1)}]

Paths == {LinksPath, <<"/", "links", "/", "abc123">>}

\* options.params of a call: left out, empty, and objects whose values are
\* numbers, strings, booleans (the falsy ones among them) and undefined.
ParamChoices ==
  { NoParams,
    Params(<<>>),
    Params(<<Entry("page", Number(1)), Entry("limit", UndefinedValue),
             Entry("search", Str("hello"))>>),
    Params(<<Entry("limit", UndefinedValue)>>),
    Params(<<Entry("offset", Number(0)), Entry("q", Str("")),
             Entry("archived", Boolean(FALSE))>>),
    Params(<<Entry("active", Boolean(TRUE)), Entry("tag", UndefinedValue)>>) }

\* One answer of each kind that request() tells apart.
RequestResponses ==
  {r \in Responses :
     /\ r.contentLength = NoHeader
     /\ \/ r.status = 429 /\ r.retryAfter = NoHeader
        \/ r.status = 500 /\ r.body.kind = "invalid"
        \/ r.status = 204
        \/ /\ r.status = 200 /\ r.body.kind = "object" /\ r.body.success
           /\ r.body.data = "payload" /\ r.body.error = NoError}

\* Before new HttpClient(config).
NoConfig == [apiKey |-> "", baseUrl |-> NoText, timeout |-> NotGiven, retries |-> NotGiven]
InitRequest ==
  /\ pc = "new"
  /\ config = NoConfig
  /\ apiKey = ""
  /\ baseUrl = <<>>
  /\ timeout = 0
  /\ retries = 0
  /\ NoCall
  /\ calls = <<>>
  /\ seen = <<>>
  /\ facade = NoFacade
  /\ result = Pending

\* constructor(config), lines 25-38: it throws, or leaves the fields set.
constructor(cfg) ==
  /\ pc = "new"
  /\ config' = cfg
  /\ apiKey' = HttpClient(cfg).apiKey
  /\ baseUrl' = HttpClient(cfg).baseUrl
  /\ timeout' = HttpClient(cfg).timeout
  /\ retries' = HttpClient(cfg).retries
  /\ pc' = IF HttpClient(cfg).thrown THEN "constructFailed" ELSE "idle"
  /\ result' = IF HttpClient(cfg).thrown THEN Thrown(HttpClient(cfg).err) ELSE Pending
  /\ UNCHANGED <<method, path, body, params, url, headers, sent, calls, seen,
                 timerArmed, facade, attempt, response, lastError, sleepMs, fetchCalls,
                 sleepCalls, hist>>

NextRequest ==
  \/ \E cfg \in RequestConfigs : constructor(cfg)
  \/ \E p \in Paths, q \in ParamChoices : get(p, q) /\ UNCHANGED facade
  \/ \E p \in Paths, b \in BOOLEAN, q \in ParamChoices :
       post(p, b, q) /\ UNCHANGED facade
  \/ \E p \in Paths, b \in BOOLEAN, q \in ParamChoices :
       patch(p, b, q) /\ UNCHANGED facade
  \/ \E p \in Paths, q \in ParamChoices : delete(p, q) /\ UNCHANGED facade
  \/ \E r \in RequestResponses : FetchResolve(r)
  \/ FetchAbort
  \/ \E e \in ConnectionFailures : FetchReject(e)
  \/ JsonSettle
  \/ MapErrorSettle
  \/ RateLimitSleepDone
  \/ BackoffSleepDone
  \/ TimerFiresLate

SpecRequest == InitRequest /\ [][NextRequest]_vars

\* The answers a call is followed to its end with: one of each kind that
\* request() tells apart, and a 200 whose body does not parse.
LiveResponses ==
  RequestResponses
  \cup {r \in Responses :
          r.status = 200 /\ r.contentLength = NoHeader /\ r.body.kind = "invalid"}

\* The fetch of the attempt under way settles: it resolves, it rejects, or
\* the attempt's timer aborts it.
FetchSettles ==
  \/ \E r \in LiveResponses : FetchResolve(r)
  \/ FetchAbort
  \/ \E e \in ConnectionFailures : FetchReject(e)

NextLive ==
  \/ get(LinksPath, NoParams) /\ UNCHANGED facade
  \/ \E b \in BOOLEAN : post(LinksPath, b, NoParams) /\ UNCHANGED facade
  \/ \E b \in BOOLEAN : patch(LinksPath, b, NoParams) /\ UNCHANGED facade
  \/ delete(LinksPath, NoParams) /\ UNCHANGED facade
  \/ FetchSettles
  \/ JsonSettle
  \/ MapErrorSettle
  \/ RateLimitSleepDone
  \/ BackoffSleepDone
  \/ TimerFiresLate

\* The program where what request() awaits comes to an end: every fetch
\* settles (the timer of line 82 sees to it at the latest), every body read
\* of lines 108 and 117 completes and every sleep of lines 98 and 158
\* completes (setTimeout, lines 219-221).
SpecLive ==
  /\ Init
  /\ [][NextLive]_vars
  /\ WF_vars(FetchSettles)
  /\ WF_vars(JsonSettle)
  /\ WF_vars(MapErrorSettle)
  /\ WF_vars(RateLimitSleepDone)
  /\ WF_vars(BackoffSleepDone)

(***************************************************************************)
(* Shorthands of the properties.                                           *)
(***************************************************************************)
Settled == pc = "done"
Sleeping == pc \in {"sleepRateLimit", "sleepBackoff"}
\* The outcome of the attempt that ended last, and the sleep it led to.
LastOutcome == IF hist = <<>> THEN "none" ELSE hist[Len(hist)].outcome
LastSleep == IF hist = <<>> THEN "none" ELSE hist[Len(hist)].sleep
\* How many of the ended attempts were followed by a sleep.
SleepsIn(h) == Cardinality({i \in 1..Len(h) : h[i].sleep # "none"})
\* The response in hand is a non-2xx other than 429.
OtherNon2xx == response.status # 0 /\ ~Ok(response) /\ response.status # 429

(***************************************************************************)
(* C1.  With maxRetries = N >= 0 the attempt counter stays within 0..N     *)
(* while the call runs, and the call issues at least one and at most N+1   *)
(* requests.                                                               *)
(***************************************************************************)
C1_AttemptBudget ==
  retries >= 0 =>
    /\ attempt \in 0..retries
    /\ fetchCalls <= retries + 1
    /\ (pc # "idle" => fetchCalls >= 1)
    /\ (pc # "idle" => fetchCalls = attempt + 1)

\* A call that used its whole budget of N+1 requests, N >= 2.
C1_Witness ==
  Settled /\ retries >= 2 /\ attempt = retries /\ fetchCalls = retries + 1

(***************************************************************************)
(* C2.  A non-2xx response other than 429 fails the call on that very      *)
(* attempt with the mapped error: no sleep and no further request follows, *)
(* whatever maxRetries and the attempt index are.                          *)
(***************************************************************************)
C2_NoRetryOnOtherNon2xx ==
  OtherNon2xx =>
    /\ pc \in {"mapError", "done"}
    /\ fetchCalls = attempt + 1
    /\ Settled =>
         /\ result = Thrown(mapError(response))
         /\ result.err.status = response.status
         /\ LastOutcome = "non2xx" /\ LastSleep = "none"
         /\ Len(hist) = fetchCalls

\* A 500 on an attempt after the first, with attempts left: the call failed.
C2_Witness ==
  Settled /\ response.status = 500 /\ attempt = 1 /\ retries = 3
  /\ result.kind = "thrown"

(***************************************************************************)
(* C3.  A further attempt is made only after an attempt that ended in a    *)
(* 429 or in a transport-level failure; every 2xx response, whatever its   *)
(* body, and every other non-2xx response ends the call without a retry.   *)
(* Each ended attempt that was followed by a sleep or by another request   *)
(* must then be a 429, a timeout or a connection failure.                  *)
(***************************************************************************)
C3_RetryOnlyAfter429OrTransport ==
  \A i \in 1..Len(hist) :
    (hist[i].sleep # "none" \/ i < fetchCalls) =>
      hist[i].outcome \in {"429", "timeout", "connfail"}

(***************************************************************************)
(* C4.  A 429 on an attempt a < maxRetries makes the call wait exactly     *)
(* min(r * 1000, 120000) ms, r being the Retry-After of that response (60  *)
(* when the header is missing or not numeric), and then start attempt      *)
(* a + 1.  The wait never exceeds 120000 ms, is the same at every attempt  *)
(* index and after any earlier failures, and a 429 is never followed by    *)
(* the exponential backoff.                                                *)
(***************************************************************************)
HasDigit(text) == \E i \in 1..Len(text) : text[i] \in Digits

C6_SuccessAfter429s ==
  ( /\ Settled
    /\ LastOutcome = "2xx"
    /\ \A i \in 1..(Len(hist) - 1) : hist[i].outcome = "429"
    /\ response.body.kind = "object" /\ response.body.success ) =>
      /\ result = Returned(response.body.data)
      /\ fetchCalls = Len(hist)
      /\ attempt = Len(hist) - 1

\* Two 429s, then a 200 with a success envelope, with one attempt to spare.
C6_Witness ==
  /\ Settled /\ retries = 3 /\ Len(hist) = 3
  /\ hist[1].outcome = "429" /\ hist[2].outcome = "429" /\ hist[3].outcome = "2xx"
  /\ response.body.kind = "object" /\ response.body.success
  /\ result = Returned("payload")

(***************************************************************************)
(* C7.  After every transport-level failure of an attempt a < maxRetries,  *)
(* deadline expiry as well as connection failure, the call sleeps          *)
(* min(1000 * 2^a, 10000) ms before it starts attempt a + 1.               *)
(***************************************************************************)
C7_BackoffAfterEveryTransportFailure ==
  /\ \A i \in 1..Len(hist) :
       (hist[i].outcome \in {"timeout", "connfail"} /\ i - 1 < retries) =>
         hist[i].sleep = "backoff"
  /\ pc = "sleepBackoff" => sleepMs = Min(1000 * Pow2(attempt), 10000)

(***************************************************************************)
(* C8.  A transport-level failure of the attempt a = maxRetries fails the  *)
(* call with a QCKError of status 0: code TIMEOUT when the deadline        *)
(* expired, code NETWORK_ERROR and a message wrapping the underlying       *)
(* error's message otherwise; no sleep precedes the failure.               *)
(***************************************************************************)
C8_TransportFailureOnLastAttempt ==
  /\ (Settled /\ LastOutcome = "timeout") =>
       /\ attempt = retries
       /\ result = Thrown([name |-> "QCKError", message |-> "Request timed out",
                           status |-> 0, code |-> "TIMEOUT"])
       /\ LastSleep = "none" /\ sleepCalls = SleepsIn(hist)
  /\ (Settled /\ LastOutcome = "connfail") =>
       /\ attempt = retries
       /\ lastError.message \in {e.message : e \in ConnectionFailures}
       /\ result = Thrown([name |-> "QCKError",
                           message |-> "Network error: " \o lastError.message,
                           status |-> 0, code |-> "NETWORK_ERROR"])
       /\ LastSleep = "none" /\ sleepCalls = SleepsIn(hist)

\* The last of three attempts ends in a connection failure.
C8_Witness ==
  /\ Settled /\ retries = 2 /\ attempt = 2 /\ LastOutcome = "connfail"
  /\ result.kind = "thrown" /\ result.err.message = "Network error: fetch failed"

(***************************************************************************)
(* C9.  With maxRetries = 0 a call issues exactly one request and never    *)
(* sleeps: a 429 fails at once with a RateLimitError carrying the parsed   *)
(* Retry-After, a timeout or a connection failure fails at once with the   *)
(* QCKError of code TIMEOUT or NETWORK_ERROR.                              *)
(***************************************************************************)
C9_NoRetriesConfigured ==
  retries = 0 =>
    /\ sleepCalls = 0 /\ ~Sleeping
    /\ pc # "idle" => fetchCalls = 1
    /\ (pc \notin {"idle", "fetch"} /\ response.status = 429) =>
         /\ Settled
         /\ result = Thrown(RateLimitError("Rate limit exceeded",
                                           parseRetryAfter(response.retryAfter)))
         /\ response.retryAfter = Header(<<"4", "2">>) => result.err.retryAfter = 42
    /\ LastOutcome = "timeout" =>
         /\ Settled
         /\ result.kind = "thrown" /\ result.err.name = "QCKError"
         /\ result.err.status = 0 /\ result.err.code = "TIMEOUT"
    /\ LastOutcome = "connfail" =>
         /\ Settled
         /\ result.kind = "thrown" /\ result.err.name = "QCKError"
         /\ result.err.status = 0 /\ result.err.code = "NETWORK_ERROR"

\* Retry-After: 42 and retries: 0, the case of the test suite.
C9_Witness ==
  /\ retries = 0 /\ Settled /\ response.status = 429
  /\ response.retryAfter = Header(<<"4", "2">>)
  /\ result.kind = "thrown" /\ result.err.name = "RateLimitError"
  /\ result.err.retryAfter = 42 /\ fetchCalls = 1 /\ sleepCalls = 0

(***************************************************************************)
(* C10.  For a failed call that received a non-2xx response the class of   *)
(* the error is a function of the HTTP status alone, whatever the body:    *)
(* 400 ValidationError, 401 AuthenticationError, 404 NotFoundError, 429    *)
(* (retries exhausted) RateLimitError, any other non-2xx a QCKError        *)
(* carrying that status; and a call raises one error only: once it has     *)
(* settled, its result never changes.                                      *)
(***************************************************************************)
VariantOf(status) ==
  CASE status = 400 -> "ValidationError"
    [] status = 401 -> "AuthenticationError"
    [] status = 404 -> "NotFoundError"
    [] status = 429 -> "RateLimitError"
    [] OTHER -> "QCKError"

C10_VariantByStatus ==
  /\ [](( Settled /\ response.status # 0 /\ ~Ok(response) ) =>
          /\ result.kind = "thrown"
          /\ result.err.name = VariantOf(response.status)
          /\ result.err.status = response.status)
  /\ [][result.kind # "pending" => result' = result]_vars

\* A 404 whose body carries the code of a rate limit: still a NotFoundError.
C10_Witness ==
  /\ Settled /\ response.status = 404
  /\ response.body.kind = "object" /\ response.body.error.code = "RATE_LIMIT"
  /\ result.kind = "thrown" /\ result.err.name = "NotFoundError"

(***************************************************************************)
(* C11.  As claimed: for each status in {400, 401, 404, 429, 500}, when    *)
(* the response body is an envelope with an error field, the error raised  *)
(* has the envelope's error.message as message and the envelope's          *)
(* error.code as code.                                                     *)
(***************************************************************************)
EnvelopeWithError ==
  response.status # 0 /\ response.body.kind = "object" /\ response.body.error.present

C11_EnvelopeMessageAndCode ==
  (Settled /\ response.status \in {400, 401, 404, 429, 500} /\ EnvelopeWithError) =>
    /\ result.kind = "thrown"
    /\ result.err.message = response.body.error.message
    /\ result.err.code = response.body.error.code

(***************************************************************************)
(* C11, amended.  With an envelope that has an error field, the error      *)
(* raised for 400, 401, 404 and 500 has the envelope's error.message; its  *)
(* code is the envelope's error.code for 500 only, and the fixed code of   *)
(* its class for 400, 401 and 404; the error raised for a 429 has the      *)
(* message 'Rate limit exceeded' and the code RATE_LIMIT_ERROR whatever    *)
(* the envelope says.                                                      *)
(***************************************************************************)
C11_EnvelopeMessageCodeByClass ==
  (Settled /\ response.status \in {400, 401, 404, 429, 500} /\ EnvelopeWithError) =>
    /\ result.kind = "thrown"
    /\ response.status # 429 => result.err.message = response.body.error.message
    /\ response.status = 500 => result.err.code = response.body.error.code
    /\ response.status = 400 => result.err.code = "VALIDATION_ERROR"
    /\ response.status = 401 => result.err.code = "AUTHENTICATION_ERROR"
    /\ response.status = 404 => result.err.code = "NOT_FOUND"
    /\ response.status = 429 =>
         /\ result.err.message = "Rate limit exceeded"
         /\ result.err.code = "RATE_LIMIT_ERROR"

\* A 400 whose envelope carries another code: the message is the envelope's,
\* the code is the class's.
C11_Witness ==
  /\ Settled /\ response.status = 400 /\ EnvelopeWithError
  /\ response.body.error.code = "INTERNAL_ERROR"
  /\ result.kind = "thrown" /\ result.err.message = "Something broke"
  /\ result.err.code = "VALIDATION_ERROR"

(***************************************************************************)
(* C12.  As claimed: when the body of a non-2xx response cannot be parsed  *)
(* as an envelope, the error is still of the class of the status, with the *)
(* message 'Validation failed' for 400, 'Authentication failed' for 401,   *)
(* 'Resource not found' for 404, and 'HTTP {status}' with code API_ERROR   *)
(* for any other status.                                                   *)
(***************************************************************************)
Unparseable == response.body.kind \in {"empty", "invalid", "null"}

TableMessage(status) ==
  CASE status = 400 -> "Validation failed"
    [] status = 401 -> "Authentication failed"
    [] status = 404 -> "Resource not found"
    [] OTHER -> "HTTP " \o ToString(status)

C12_TableMessageWhenUnparseable ==
  (Settled /\ OtherNon2xx /\ Unparseable) =>
    /\ result.kind = "thrown"
    /\ result.err.name = VariantOf(response.status)
    /\ result.err.message = TableMessage(response.status)
    /\ result.err.name = "QCKError" => result.err.code = "API_ERROR"

(***************************************************************************)
(* C12, amended.  When the body of a non-2xx response other than 429       *)
(* cannot be parsed as an envelope, the error is still of the class of the *)
(* status and its message is 'HTTP {status}' for every status, 400, 401    *)
(* and 404 included; the code is API_ERROR for the statuses mapped to      *)
(* QCKError.                                                               *)
(***************************************************************************)
C12_HttpStatusMessageWhenUnparseable ==
  (Settled /\ OtherNon2xx /\ Unparseable) =>
    /\ result.kind = "thrown"
    /\ result.err.name = VariantOf(response.status)
    /\ result.err.status = response.status
    /\ result.err.message = "HTTP " \o ToString(response.status)
    /\ result.err.name = "QCKError" => result.err.code = "API_ERROR"

\* A 404 with a body that is no JSON text.
C12_Witness ==
  /\ Settled /\ response.status = 404 /\ response.body.kind = "invalid"
  /\ result.kind = "thrown" /\ result.err.name = "NotFoundError"
  /\ result.err.message = "HTTP 404"

(***************************************************************************)
(* C13.  Every 2xx response whose status is 204 or whose body has zero     *)
(* length, with or without a Content-Length header, makes the call return  *)
(* undefined at once; its body is never handed to the JSON parser.         *)
(***************************************************************************)
C13_NoParseOfEmpty2xx ==
  ( /\ response.status # 0 /\ Ok(response)
    /\ (response.status = 204 \/ response.body.kind = "empty") ) =>
      /\ pc = "done"
      /\ result = Returned("undefined")

(***************************************************************************)
(* C14.  A 2xx response whose envelope has success = false and an error    *)
(* field fails the call on that attempt, without a retry, with an error    *)
(* carrying the envelope's error message and code and the response's HTTP  *)
(* status.                                                                 *)
(***************************************************************************)
EnvelopeFailure ==
  /\ response.status # 0 /\ Ok(response)
  /\ response.body.kind = "object"
  /\ ~response.body.success /\ response.body.error.present

C14_EnvelopeFailureOn2xx ==
  EnvelopeFailure =>
    /\ pc \in {"json", "done"}
    /\ fetchCalls = attempt + 1
    /\ Settled =>
         /\ result = Thrown([name |-> "QCKError",
                             message |-> response.body.error.message,
                             status |-> response.status,
                             code |-> response.body.error.code])
         /\ LastOutcome = "2xx" /\ LastSleep = "none"
         /\ Len(hist) = fetchCalls

\* A 200 with an envelope-level failure on attempt 1 of 4: the call failed.
C14_Witness ==
  /\ Settled /\ EnvelopeFailure /\ attempt = 1 /\ retries = 3
  /\ result.kind = "thrown" /\ result.err.status = 200
  /\ result.err.code = "INTERNAL_ERROR"

(***************************************************************************)
(* C15.  A 2xx response with a parseable envelope that is no envelope-     *)
(* level failure (success true, or success false without an error field)   *)
(* makes the call return the envelope's data field as it is.               *)
(***************************************************************************)
C15_ReturnsDataAsIs ==
  ( /\ Settled /\ response.status # 0 /\ Ok(response)
    /\ response.body.kind = "object"
    /\ (response.body.success \/ ~response.body.error.present) ) =>
      /\ result = Returned(response.body.data)
      /\ LastOutcome = "2xx"

\* success = false without an error field, data null: null is returned.
C15_Witness ==
  /\ Settled /\ response.status = 200 /\ response.body.kind = "object"
  /\ ~response.body.success /\ ~response.body.error.present
  /\ response.body.data = "null" /\ result = Returned("null")

(***************************************************************************)
(* Two calls on one client that run side by side.  A call of request() has *)
(* its own activation, which holds its arguments and its locals (attempt,  *)
(* lastError, response); the steps of the two calls interleave at the      *)
(* awaits.                                                                 *)
(***************************************************************************)
CallIds == {"a", "b"}

\* The two calls share one activation, as if attempt and lastError were
\* fields of the client.
Frame_Shared(c) == "a"

\* The activation that call c runs in: each call of the async function
\* request() has one of its own.
Frame(c) == c

\* The activation of a call not made yet.
NewFrame ==
  [pc |-> "idle", method |-> "none", body |-> FALSE, attempt |-> 0,
   response |-> NoResponse, lastError |-> Undefined, sleepMs |-> 0, fetchCalls |-> 0,
   sleepCalls |-> 0, hist |-> <<>>, result |-> Pending]

\* LoopHead, on the activation f.
FrameLoopHead(f, a, le) ==
  [f EXCEPT !.attempt = a, !.lastError = le, !.response = NoResponse, !.sleepMs = 0,
            !.pc = IF a <= retries THEN "fetch" ELSE "done",
            !.fetchCalls = IF a <= retries THEN @ + 1 ELSE @,
            !.result = IF a <= retries THEN @ ELSE Thrown(Fallback(le))]

\* Act, on the activation f.
FrameAct(f, d, r, outcome) ==
  CASE d.act = "throw" ->
         [f EXCEPT !.pc = "done", !.result = Thrown(d.err),
                   !.hist = Append(@, [outcome |-> outcome, sleep |-> "none"]),
                   !.lastError = d.lastError, !.response = r]
    [] d.act = "return" ->
         [f EXCEPT !.pc = "done", !.result = Returned(d.value),
                   !.hist = Append(@, [outcome |-> outcome, sleep |-> "none"]),
                   !.lastError = d.lastError, !.response = r]
    [] d.act = "sleep" ->
         [f EXCEPT !.pc = IF d.sleepKind = "rateLimit" THEN "sleepRateLimit"
                          ELSE "sleepBackoff",
                   !.sleepMs = d.ms, !.sleepCalls = @ + 1,
                   !.hist = Append(@, [outcome |-> outcome, sleep |-> d.sleepKind]),
                   !.lastError = d.lastError, !.response = r]
    [] d.act = "continue" ->
         FrameLoopHead(
           [f EXCEPT !.hist = Append(@, [outcome |-> outcome, sleep |-> "none"])],
           f.attempt + 1, d.lastError)
    [] OTHER ->
         [f EXCEPT !.pc = d.act, !.response = r, !.lastError = d.lastError]

\* What is delivered to a call: the call itself, the settling of its fetch,
\* of its response.json() or mapError(), and the end of its sleep.
Input(kind, m, b, r, e) ==
  [kind |-> kind, method |-> m, body |-> b, response |-> r, err |-> e]
CallInput(m, b) == Input("call", m, b, NoResponse, Undefined)
ResolveInput(r) == Input("resolve", "none", FALSE, r, Undefined)
AbortInput == Input("abort", "none", FALSE, NoResponse, Undefined)
RejectInput(e) == Input("reject", "none", FALSE, NoResponse, e)
JsonInput == Input("json", "none", FALSE, NoResponse, Undefined)
MapErrorInput == Input("mapError", "none", FALSE, NoResponse, Undefined)
WakeInput == Input("wake", "none", FALSE, NoResponse, Undefined)

\* The activation f is suspended where the input in is awaited.
Awaits(f, in) ==
  CASE in.kind = "call" -> f.pc = "idle"
    [] in.kind \in {"resolve", "abort", "reject"} -> f.pc = "fetch"
    [] in.kind = "json" -> f.pc = "json"
    [] in.kind = "mapError" -> f.pc = "mapError"
    [] OTHER -> f.pc \in {"sleepRateLimit", "sleepBackoff"}

\* request, FetchResolve, FetchAbort, FetchReject, JsonSettle, MapErrorSettle
\* and the two SleepDone steps, on the activation f.
StepFrame(f, in) ==
  CASE in.kind = "call" ->
         FrameLoopHead([f EXCEPT !.method = in.method, !.body = in.body], 0, Undefined)
    [] in.kind = "resolve" ->
         FrameAct(f, OnResponse(in.response, f.attempt, f.lastError), in.response,
                  IF in.response.status = 429 THEN "429"
                  ELSE IF Ok(in.response) THEN "2xx" ELSE "non2xx")
    [] in.kind = "abort" ->
         FrameAct(f, Catch(AbortError, f.attempt, f.lastError), NoResponse, "timeout")
    [] in.kind = "reject" ->
         FrameAct(f, Catch(in.err, f.attempt, f.lastError), NoResponse, "connfail")
    [] in.kind = "json" ->
         FrameAct(f, OnJson(f.response, f.attempt, f.lastError), f.response, "2xx")
    [] in.kind = "mapError" ->
         FrameAct(f, OnMapError(f.response, f.attempt, f.lastError), f.response, "non2xx")
    [] OTHER -> FrameLoopHead(f, f.attempt + 1, f.lastError)

\* Call c takes the step that the input in resumes.
CallStep(c, in) ==
  /\ Awaits(calls[Frame(c)], in)
  /\ calls' = [calls EXCEPT ![Frame(c)] = StepFrame(@, in)]
  /\ seen' = [seen EXCEPT ![c] = Append(@, in)]
  /\ UNCHANGED <<config, apiKey, baseUrl, timeout, retries, pc, method, path, body,
                 params, url, headers, sent, timerArmed, facade, attempt, response,
                 lastError, sleepMs, fetchCalls, sleepCalls, hist, result>>

\* The configs of the two-call runs: one retry, or two.
ConcurrentConfigs == {cfg \in Configs : cfg.retries \in {Given(1), Given(2)}}

InitConcurrent ==
  /\ \E cfg \in ConcurrentConfigs : ~HttpClient(cfg).thrown /\ Constructed(cfg)
  /\ pc = "idle"
  /\ NoCall
  /\ calls = [c \in CallIds |-> NewFrame]
  /\ seen = [c \in CallIds |-> <<>>]
  /\ facade = NoFacade
  /\ result = Pending

\* The calls made, a get and a post with a body, and what their fetches
\* settle with.
CallInputs == {CallInput("GET", FALSE), CallInput("POST", TRUE)}
ResolveInputs == {ResolveInput(r) : r \in RequestResponses}
RejectInputs == {RejectInput(e) : e \in ConnectionFailures}

NextConcurrent ==
  \E c \in CallIds :
    \/ \E in \in CallInputs : CallStep(c, in)
    \/ \E in \in ResolveInputs : CallStep(c, in)
    \/ CallStep(c, AbortInput)
    \/ \E in \in RejectInputs : CallStep(c, in)
    \/ CallStep(c, JsonInput)
    \/ CallStep(c, MapErrorInput)
    \/ CallStep(c, WakeInput)

SpecConcurrent == InitConcurrent /\ [][NextConcurrent]_vars

(***************************************************************************)
(* The resource facades: LinksResource, WebhooksResource, AnalyticsResource,*)
(* DomainsResource, JourneyResource and ConversionsResource.  A method      *)
(* builds the arguments of one dispatcher call from its own and returns     *)
(* the dispatcher's promise.                                                *)
(***************************************************************************)
\* Array.prototype.join(','): the elements with a comma between neighbours.
RECURSIVE Join(_)
Join(a) ==
  IF a = <<>> THEN ""
  ELSE IF Len(a) = 1 THEN a[1]
  ELSE a[1] \o "," \o Join(Tail(a))

\* An optional period, '7d' | '30d' | '90d', as a value of params: "" is
\* the period left out.
PeriodValue(period) == IF period = "" THEN UndefinedValue ELSE Str(period)

\* getFunnel with the steps handed over as the first step only.
getFunnel_FirstStepOnly(linkId, steps, period) ==
  DispatcherCall("GET", <<"/", "journey", "/", "links", "/", linkId, "/", "funnel">>,
                 UndefinedBody,
                 Params(<<Entry("steps", Str(IF steps = <<>> THEN "" ELSE steps[1])),
                          Entry("period", PeriodValue(period))>>))

\* JourneyResource.getFunnel(linkId, params), with params = {steps, period}
getFunnel(linkId, steps, period) ==
  DispatcherCall("GET", <<"/", "journey", "/", "links", "/", linkId, "/", "funnel">>,
                 UndefinedBody,
                 Params(<<Entry("steps", Str(Join(steps))),
                          Entry("period", PeriodValue(period))>>))

\* TrackConversionParams.  An optional string that is left out is "",
\* which `||` treats as it treats undefined; revenue is left out or a number.
TrackParams ==
  [link_id : {"link_1"}, visitor_id : {"visitor_1"}, session_id : {"", "session_1"},
   name : {"purchase"}, revenue : {NotGiven, Given(0), Given(50)},
   currency : {"", "EUR"}, page_url : {"", "https://shop.test/thanks"},
   event_data : {"none", "extra"}]

\* The JourneyEvent that track builds, lines 27-41 of conversions.ts.
TrackEvent(t) ==
  [link_id |-> t.link_id,
   visitor_id |-> t.visitor_id,
   session_id |-> t.session_id,
   event_type |-> "custom",
   event_name |-> t.name,
   page_url |-> t.page_url,
   event_data |-> [spread |-> t.event_data,
                   name |-> t.name,
                   revenue |-> IF t.revenue.given THEN ToString(t.revenue.value) ELSE "0",
                   currency |-> IF t.currency = "" THEN "USD" ELSE t.currency,
                   event_type_override |-> "conversion"]]

\* ConversionsResource.track(params)
track(t) ==
  DispatcherCall("POST", <<"/", "journey", "/", "events">>, EventsBody(<<TrackEvent(t)>>),
                 NoParams)

\* A call of a resource method: its name and its arguments, of which a
\* method reads those it declares.
Invocation(name, id, q, steps, period, t) ==
  [name |-> name, id |-> id, params |-> q, steps |-> steps, period |-> period,
   track |-> t]

\* What each resource method hands to the dispatcher.
FacadeCall(inv) ==
  LET id == inv.id
      q == inv.params
      Get(p) == DispatcherCall("GET", p, UndefinedBody, NoParams)
      GetWith(p) == DispatcherCall("GET", p, UndefinedBody, q)
      Send(verb, p, of) == DispatcherCall(verb, p, ObjectBody(of), NoParams)
  IN CASE inv.name = "links.create" -> Send("POST", <<"/", "links">>, "params")
       [] inv.name = "links.list" -> GetWith(<<"/", "links">>)
       [] inv.name = "links.get" -> Get(<<"/", "links", "/", id>>)
       [] inv.name = "links.update" -> Send("PATCH", <<"/", "links", "/", id>>, "params")
       [] inv.name = "links.delete" ->
            DispatcherCall("DELETE", <<"/", "links", "/", id>>, UndefinedBody, NoParams)
       [] inv.name = "links.bulkCreate" ->
            Send("POST", <<"/", "links", "/", "bulk">>, "params.links")
       [] inv.name = "links.getStats" -> Get(<<"/", "links", "/", id, "/", "stats">>)
       [] inv.name = "webhooks.create" -> Send("POST", <<"/", "webhooks">>, "params")
       [] inv.name = "webhooks.list" -> Get(<<"/", "webhooks">>)
       [] inv.name = "webhooks.get" -> Get(<<"/", "webhooks", "/", id>>)
       [] inv.name = "webhooks.update" ->
            Send("PATCH", <<"/", "webhooks", "/", id>>, "params")
       [] inv.name = "webhooks.delete" ->
            DispatcherCall("DELETE", <<"/", "webhooks", "/", id>>, UndefinedBody, NoParams)
       [] inv.name = "webhooks.listDeliveries" ->
            GetWith(<<"/", "webhooks", "/", id, "/", "deliveries">>)
       [] inv.name = "webhooks.test" ->
            DispatcherCall("POST", <<"/", "webhooks", "/", id, "/", "test">>,
                           UndefinedBody, NoParams)
       [] inv.name = "analytics.summary" -> GetWith(<<"/", "analytics", "/", "summary">>)
       [] inv.name = "analytics.timeseries" ->
            GetWith(<<"/", "analytics", "/", "timeseries">>)
       [] inv.name = "analytics.geo" -> GetWith(<<"/", "analytics", "/", "geo">>)
       [] inv.name = "analytics.devices" -> GetWith(<<"/", "analytics", "/", "devices">>)
       [] inv.name = "analytics.referrers" ->
            GetWith(<<"/", "analytics", "/", "referrers">>)
       [] inv.name = "analytics.hourly" -> GetWith(<<"/", "analytics", "/", "hourly">>)
       [] inv.name = "domains.list" ->
            DispatcherCall("GET", <<"/", "domains">>, UndefinedBody,
                           Params(<<Entry("organizationId", Str(id))>>))
       [] inv.name = "journey.ingest" ->
            Send("POST", <<"/", "journey", "/", "events">>, "params")
       [] inv.name = "journey.getSummary" ->
            GetWith(<<"/", "journey", "/", "links", "/", id, "/", "summary">>)
       [] inv.name = "journey.getFunnel" -> getFunnel(id, inv.steps, inv.period)
       [] inv.name = "journey.listSessions" ->
            GetWith(<<"/", "journey", "/", "links", "/", id, "/", "sessions">>)
       [] inv.name = "journey.listEvents" ->
            GetWith(<<"/", "journey", "/", "links", "/", id, "/", "events">>)
       [] inv.name = "conversions.track" -> track(inv.track)
       [] inv.name = "conversions.summary" ->
            GetWith(<<"/", "conversions", "/", "summary">>)
       [] inv.name = "conversions.timeseries" ->
            GetWith(<<"/", "conversions", "/", "timeseries">>)
       [] OTHER -> GetWith(<<"/", "conversions", "/", "breakdown">>)

\* The arguments the methods are called with.
Ids == {"link_1", "abc123"}
FacadeParams ==
  { NoParams,
    Params(<<Entry("page", Number(1)), Entry("limit", UndefinedValue),
             Entry("search", Str("hello"))>>),
    Params(<<Entry("period", Str("7d"))>>) }
StepLists ==
  { <<>>, <<"page_view">>, <<"page_view", "scroll_depth">>,
    <<"signup", "page_view", "purchase">> }
Periods == {"", "7d"}

Invocations ==
  {Invocation(n, "", NoParams, <<>>, "", NoTrackParams) :
     n \in {"links.create", "links.bulkCreate", "webhooks.create", "webhooks.list",
            "journey.ingest"}}
  \cup
  {Invocation(n, id, NoParams, <<>>, "", NoTrackParams) :
     n \in {"links.get", "links.update", "links.delete", "links.getStats",
            "webhooks.get", "webhooks.update", "webhooks.delete", "webhooks.test",
            "domains.list"},
     id \in Ids}
  \cup
  {Invocation(n, "", q, <<>>, "", NoTrackParams) :
     n \in {"links.list", "analytics.summary", "analytics.timeseries", "analytics.geo",
            "analytics.devices", "analytics.referrers", "analytics.hourly",
            "conversions.summary", "conversions.timeseries", "conversions.breakdown"},
     q \in FacadeParams}
  \cup
  {Invocation(n, id, q, <<>>, "", NoTrackParams) :
     n \in {"webhooks.listDeliveries", "journey.getSummary", "journey.listSessions",
            "journey.listEvents"},
     id \in Ids, q \in FacadeParams}
  \cup
  {Invocation("journey.getFunnel", id, NoParams, steps, period, NoTrackParams) :
     id \in Ids, steps \in StepLists, period \in Periods}
  \cup
  {Invocation("conversions.track", "", NoParams, <<>>, "", t) : t \in TrackParams}

\* The method's promise with a dispatcher error replaced by one of its own.
Adopt_WrapError(r) ==
  IF r.kind = "thrown" THEN Thrown(QCKError("Request failed", 0, "UNKNOWN")) ELSE r

\* `return this.client.<verb>(...)` in an async method: the method's promise
\* takes the state of the dispatcher's, value or error.
Adopt(r) == r

\* A resource method, called on a client that is idle: it builds the
\* arguments and calls the dispatcher's verb, once, which runs up to its
\* first await.
FacadeInvoke(inv) ==
  /\ facade = NoFacade
  /\ facade' = [invocation |-> inv, call |-> FacadeCall(inv), calls |-> 1,
                result |-> Pending]
  /\ CASE FacadeCall(inv).verb = "GET" ->
            get(FacadeCall(inv).path, FacadeCall(inv).params)
       [] FacadeCall(inv).verb = "POST" ->
            post(FacadeCall(inv).path, FacadeCall(inv).body.kind # "undefined",
                 FacadeCall(inv).params)
       [] FacadeCall(inv).verb = "PATCH" ->
            patch(FacadeCall(inv).path, FacadeCall(inv).body.kind # "undefined",
                  FacadeCall(inv).params)
       [] OTHER -> delete(FacadeCall(inv).path, FacadeCall(inv).params)

\* The dispatcher's promise has settled and the method's promise follows it.
FacadeSettle ==
  /\ pc = "done"
  /\ facade.calls > 0
  /\ facade.result = Pending
  /\ facade' = [facade EXCEPT !.result = Adopt(result)]
  /\ UNCHANGED <<config, apiKey, baseUrl, timeout, retries, pc, method, path, body,
                 params, url, headers, sent, calls, seen, timerArmed, attempt, response,
                 lastError, sleepMs, fetchCalls, sleepCalls, hist, result>>

\* The client of the facades: the test base URL, no retry or one.
FacadeConfigs ==
  [apiKey : {"qck_test_key"}, baseUrl : {Text(<<"https://api.test.com">>)},
   timeout : {NotGiven}, retries : {Given(0), Given(1)}]

InitFacade ==
  /\ \E cfg \in FacadeConfigs : ~HttpClient(cfg).thrown /\ Constructed(cfg)
  /\ pc = "idle"
  /\ NoCall
  /\ calls = <<>>
  /\ seen = <<>>
  /\ facade = NoFacade
  /\ result = Pending

NextFacade ==
  \/ \E inv \in Invocations : FacadeInvoke(inv)
  \/ \E r \in RequestResponses : FetchResolve(r)
  \/ FetchAbort
  \/ \E e \in ConnectionFailures : FetchReject(e)
  \/ JsonSettle
  \/ MapErrorSettle
  \/ RateLimitSleepDone
  \/ BackoffSleepDone
  \/ TimerFiresLate
  \/ FacadeSettle

SpecFacade == InitFacade /\ [][NextFacade]_vars

\* The header named n of a request handed to fetch has the value v, and
\* the request has one header of that name.
HasHeader(req, n, v) ==
  /\ <<n, v>> \in req.headers
  /\ \A h \in req.headers : h[1] = n => h[2] = v

\* C16: every request handed to fetch, whatever the method of the call and
\* whether it is the first attempt or a retry, carries X-API-Key with the
\* key given to the constructor and Accept: application/json.
C16_KeyAndAcceptOnEveryRequest ==
  /\ Len(sent) = fetchCalls
  /\ pc = "fetch" => fetchCalls = attempt + 1
  /\ \A i \in 1..Len(sent) :
       /\ HasHeader(sent[i], "X-API-Key", config.apiKey)
       /\ HasHeader(sent[i], "Accept", "application/json")
       /\ sent[i].method = method

C16_Witness ==
  /\ Len(sent) = 2
  /\ method = "PATCH" /\ body
  /\ config.apiKey = "qck_other_key"
  /\ \A i \in 1..2 : HasHeader(sent[i], "X-API-Key", "qck_other_key")

\* C17: a request handed to fetch carries Content-Type: application/json
\* and the JSON text of the body exactly when the caller gave a body; a get,
\* a delete, and a post or patch without a body send neither.
C17_ContentTypeAndBodyIffBodyGiven ==
  /\ method \in {"GET", "DELETE"} => ~body
  /\ \A i \in 1..Len(sent) :
       IF body
       THEN /\ method \in {"POST", "PATCH"}
            /\ HasHeader(sent[i], "Content-Type", "application/json")
            /\ sent[i].body.present
            /\ sent[i].body.text = "{\"url\":\"https://example.com\"}"
       ELSE /\ \A h \in sent[i].headers : h[1] # "Content-Type"
            /\ ~sent[i].body.present

C17_Witness ==
  /\ method = "POST" /\ body
  /\ Len(sent) = 2
  /\ HasHeader(sent[2], "Content-Type", "application/json")
  /\ sent[2].body.present

\* The base URL the constructor was given, or the default one.
GivenBaseUrl == IF config.baseUrl.given THEN config.baseUrl.value ELSE DEFAULT_BASE_URL

\* The entries of the call's params whose value is defined.
DefinedEntries == SelectSeq(params.entries, LAMBDA e : e.value.type # "undefined")

\* The text of the values the calls use.
Coerced(v) ==
  CASE v = Number(0) -> "0"
    [] v = Number(1) -> "1"
    [] v = Boolean(TRUE) -> "true"
    [] v = Boolean(FALSE) -> "false"
    [] OTHER -> v.str

\* C18: the URL of every request is the given base URL without the
\* slashes that end it, followed by the path, and its query has one pair
\* for each entry of params with a defined value, in the text of that
\* value, and nothing for an entry whose value is undefined.
C18_UrlOfRequest ==
  \A i \in 1..Len(sent) :
    /\ \E n \in 0..Len(GivenBaseUrl) :
         /\ sent[i].url.href = SubSeq(GivenBaseUrl, 1, n) \o path
         /\ n > 0 => GivenBaseUrl[n] # "/"
         /\ \A k \in (n + 1)..Len(GivenBaseUrl) : GivenBaseUrl[k] = "/"
    /\ Len(sent[i].url.search) = Len(DefinedEntries)
    /\ \A j \in 1..Len(DefinedEntries) :
         sent[i].url.search[j] = <<DefinedEntries[j].key, Coerced(DefinedEntries[j].value)>>
    /\ \A j \in 1..Len(params.entries) :
         params.entries[j].value = UndefinedValue =>
           \A k \in 1..Len(sent[i].url.search) :
             sent[i].url.search[k][1] # params.entries[j].key
    /\ params = Params(<<Entry("page", Number(1)), Entry("limit", UndefinedValue),
                         Entry("search", Str("hello"))>>)
         => sent[i].url.search = << <<"page", "1">>, <<"search", "hello">> >>

C18_Witness ==
  /\ Len(sent) = 2
  /\ config.baseUrl = Text(<<"https://api.test.com", "/", "v2", "/", "/", "/">>)
  /\ sent[2].url = [href |-> <<"https://api.test.com", "/", "v2", "/", "links">>,
                    search |-> << <<"page", "1">>, <<"search", "hello">> >>]

\* C19: the constructor throws exactly when the key it is given is empty;
\* it then throws an AuthenticationError, in the one step of the
\* construction, and no request is ever handed to fetch.
C19_EmptyKeyFailsConstruction ==
  /\ pc # "new" => (pc = "constructFailed" <=> config.apiKey = "")
  /\ pc \in {"new", "constructFailed"} =>
       /\ fetchCalls = 0 /\ sent = <<>>
       /\ method = "none" /\ attempt = 0
  /\ pc = "constructFailed" =>
       result = Thrown([name |-> "AuthenticationError", message |-> "API key is required",
                        status |-> 401, code |-> "AUTHENTICATION_ERROR"])
  /\ pc \notin {"new", "constructFailed"} =>
       /\ apiKey = config.apiKey
       /\ result.err.message # "API key is required"

C19_Witness ==
  /\ pc = "constructFailed"
  /\ config.apiKey = ""
  /\ config.baseUrl = Text(<<"https://api.test.com">>)
  /\ config.retries = Given(1)
  /\ result.err.name = "AuthenticationError"
  /\ fetchCalls = 0

\* The activation that a call reaches from NewFrame by what was delivered
\* to it, in the order of delivery.
RECURSIVE Replay(_)
Replay(ins) ==
  IF ins = <<>> THEN NewFrame
  ELSE StepFrame(Replay(SubSeq(ins, 1, Len(ins) - 1)), ins[Len(ins)])

\* C20: with two calls under way on one client, in every interleaving of
\* their steps, the state of each call (attempt counter, delays, outcome)
\* is the one its own inputs lead to, whatever the other call did, and no
\* step changes apiKey, baseUrl, timeout or retries, which stay as the
\* constructor set them.
C20_CallsIndependent ==
  /\ [](/\ \A c \in CallIds : calls[c] = Replay(seen[c])
        /\ apiKey = HttpClient(config).apiKey
        /\ baseUrl = HttpClient(config).baseUrl
        /\ timeout = HttpClient(config).timeout
        /\ retries = HttpClient(config).retries)
  /\ [][UNCHANGED <<config, apiKey, baseUrl, timeout, retries>>]_vars

C20_Witness ==
  /\ calls["a"].pc = "sleepBackoff" /\ calls["a"].attempt = 1
  /\ calls["a"].sleepMs = 2000
  /\ calls["b"].pc = "sleepRateLimit" /\ calls["b"].attempt = 0
  /\ calls["b"].sleepMs = 60000
  /\ calls["a"].method = "GET" /\ calls["b"].method = "POST"

\* C21: while an attempt has not produced its result, that is while its
\* fetch is awaited and while the body of its response is read, the
\* attempt's timer is set, so that the deadline can abort it; and an
\* attempt that the timer aborted on the last try fails with code TIMEOUT.
C21_DeadlineArmedUntilResult ==
  /\ pc \in {"fetch", "json", "mapError"} => timerArmed
  /\ (Settled /\ hist # <<>> /\ LastOutcome = "timeout") =>
       /\ result.kind = "thrown"
       /\ result.err.code = "TIMEOUT"

\* The header is there and its text is an integer number of seconds: one
\* or more decimal digits and nothing else.
IntegerSeconds(header) ==
  /\ header.present /\ header.text # <<>>
  /\ \A i \in 1..Len(header.text) : header.text[i] \in Digits

\* C22: a RateLimitError thrown by a call carries a retryAfter that is an
\* integer >= 0: the number in the Retry-After header of the 429 response
\* when the header is an integer number of seconds, and 60 when the header
\* is absent or anything else (negative and partly numeric text included).
C22_RetryAfterNonNegativeInteger ==
  (result.kind = "thrown" /\ result.err.name = "RateLimitError") =>
    /\ response.status = 429
    /\ result.err.retryAfter \in Nat
    /\ result.err.retryAfter =
         IF IntegerSeconds(response.retryAfter)
         THEN DigitsValue(response.retryAfter.text)
         ELSE 60

\* The text that the step lists of the calls stand for when joined.
JoinedSteps(steps) ==
  CASE steps = <<>> -> ""
    [] steps = <<"page_view">> -> "page_view"
    [] steps = <<"page_view", "scroll_depth">> -> "page_view,scroll_depth"
    [] OTHER -> "signup,page_view,purchase"

\* C23: getFunnel makes a GET on /journey/links/{id}/funnel whose params
\* hold the step names as the one entry 'steps', joined by commas in
\* their order, and every request of the call carries steps and, only when
\* a period was given, period in its query.
C23_FunnelStepsJoined ==
  facade.invocation.name = "journey.getFunnel" =>
    /\ facade.calls = 1
    /\ method = "GET" /\ ~body
    /\ path = <<"/", "journey", "/", "links", "/", facade.invocation.id, "/", "funnel">>
    /\ params.given
    /\ Cardinality({j \in 1..Len(params.entries) : params.entries[j].key = "steps"}) = 1
    /\ \A j \in 1..Len(params.entries) :
         params.entries[j].key = "steps" =>
           params.entries[j].value = Str(JoinedSteps(facade.invocation.steps))
    /\ \A i \in 1..Len(sent) :
         /\ sent[i].url.href = <<"https://api.test.com">> \o path
         /\ sent[i].url.search =
              << <<"steps", JoinedSteps(facade.invocation.steps)>> >> \o
              (IF facade.invocation.period = "" THEN <<>>
               ELSE << <<"period", facade.invocation.period>> >>)

C23_Witness ==
  /\ facade.invocation.name = "journey.getFunnel"
  /\ facade.invocation.steps = <<"signup", "page_view", "purchase">>
  /\ facade.invocation.period = "7d"
  /\ Len(sent) = 2
  /\ sent[2].url.search = << <<"steps", "signup,page_view,purchase">>, <<"period", "7d">> >>

\* C24: a resource method makes one dispatcher call, the one built from
\* its arguments, and its own promise settles as the dispatcher's did:
\* with the value returned, or with the very error thrown.
C24_FacadePropagates ==
  /\ facade.calls \in {0, 1}
  /\ facade.calls = 0 <=> facade = NoFacade
  /\ facade.calls = 1 =>
       /\ pc # "idle"
       /\ method = facade.call.verb
       /\ path = facade.call.path
       /\ params = facade.call.params
       /\ body = (facade.call.body.kind # "undefined")
       /\ fetchCalls <= retries + 1
  /\ facade.result # Pending =>
       /\ Settled
       /\ facade.result = result

C24_Witness ==
  /\ facade.invocation.name = "links.update"
  /\ facade.result.kind = "thrown"
  /\ facade.result.err.name = "QCKError" /\ facade.result.err.status = 500
  /\ facade.result = result
  /\ attempt = 1

\* The state of the state machine that the call is in.
MachineState ==
  CASE pc \in {"fetch", "json", "mapError"} -> "Attempting"
    [] pc = "sleepRateLimit" -> "WaitingForRateLimit"
    [] pc = "sleepBackoff" -> "WaitingForBackoff"
    [] pc = "done" /\ result.kind = "returned" -> "Succeeded"
    [] pc = "done" /\ result.kind = "thrown" -> "Failed"
    [] OTHER -> "NotStarted"

\* A step of the state machine, or a step that leaves the machine where it
\* is (the body read inside an attempt, a late timer).
MachineStep ==
  \/ /\ MachineState' = MachineState
     /\ attempt' = attempt
  \/ /\ MachineState = "NotStarted"
     /\ MachineState' \in {"Attempting", "Failed"}
  \/ /\ MachineState = "Attempting"
     /\ Len(hist') = Len(hist) + 1
     /\ attempt' = attempt
     /\ LET outcome == hist'[Len(hist')].outcome
            left == attempt < retries
        IN \/ MachineState' = "WaitingForRateLimit" /\ outcome = "429" /\ left
           \/ /\ MachineState' = "WaitingForBackoff"
              /\ outcome \in {"timeout", "connfail"} /\ left
           \/ /\ MachineState' \in {"Succeeded", "Failed"}
              /\ ~(outcome \in {"429", "timeout", "connfail"} /\ left)
  \/ /\ MachineState \in {"WaitingForRateLimit", "WaitingForBackoff"}
     /\ MachineState' = "Attempting"
     /\ attempt' = attempt + 1

\* C25: every step of a call is a step of the state machine over
\* Attempting, WaitingForRateLimit, WaitingForBackoff, Succeeded and Failed:
\* from Attempting to WaitingForRateLimit only after a 429 with attempts
\* left, to WaitingForBackoff after a timeout or a connection failure with
\* attempts left, to Succeeded or Failed otherwise, never to a new attempt;
\* from a waiting state to Attempting with the counter one higher; from
\* Succeeded and Failed nowhere.
C25_StateMachine == [][MachineStep]_vars

\* The call failed with the generic error, a QCKError that is of none of
\* the four subclasses.
GenericErrorRaised == result.kind = "thrown" /\ result.err.name = "QCKError"

\* C26, as claimed: every generic error raised by a call has one of the
\* codes TIMEOUT, NETWORK_ERROR, API_ERROR and UNKNOWN.
C26_GenericCodeInFixedSet ==
  GenericErrorRaised =>
    result.err.code \in {"TIMEOUT", "NETWORK_ERROR", "API_ERROR", "UNKNOWN"}

\* C26, amended: a generic error raised by a call has the code TIMEOUT
\* after a timeout, NETWORK_ERROR after a connection failure or a 2xx body
\* that did not parse, UNKNOWN when the loop made no attempt, and for a
\* response with an error envelope the envelope's code, whatever it is,
\* and otherwise API_ERROR.
C26_GenericCodeFixedOrEnvelope ==
  GenericErrorRaised =>
    IF hist = <<>> THEN result.err.code = "UNKNOWN" /\ retries < 0
    ELSE IF LastOutcome = "timeout" THEN result.err.code = "TIMEOUT"
    ELSE IF LastOutcome = "connfail" THEN result.err.code = "NETWORK_ERROR"
    ELSE IF EnvelopeWithError
    THEN /\ result.err.code = response.body.error.code
         /\ result.err.status = response.status
    ELSE IF Ok(response)
    THEN result.err.code = "NETWORK_ERROR" /\ Unparseable
    ELSE result.err.code = "API_ERROR"

C26_Witness ==
  /\ GenericErrorRaised
  /\ response.status = 500 /\ EnvelopeWithError
  /\ result.err.code = "INTERNAL_ERROR"
  /\ attempt = 1 /\ hist[1].outcome = "timeout"

\* C27: conversions.track makes a POST on /journey/events whose body holds
\* one journey event, built from the parameters of the call, and the
\* event_type of that event is 'conversion'.
C27_TrackPostsConversionEvent ==
  facade.invocation.name = "conversions.track" =>
    /\ facade.calls = 1
    /\ method = "POST" /\ body
    /\ path = <<"/", "journey", "/", "events">>
    /\ facade.call.body.kind = "events"
    /\ Len(facade.call.body.events) = 1
    /\ facade.call.body.events[1].link_id = facade.invocation.track.link_id
    /\ facade.call.body.events[1].visitor_id = facade.invocation.track.visitor_id
    /\ facade.call.body.events[1].event_name = facade.invocation.track.name
    /\ facade.call.body.events[1].event_type = "conversion"

\* The response in hand is a 2xx whose body response.json() is called on
\* (status not 204, no Content-Length: 0) and rejects.
ParseFails ==
  /\ Ok(response)
  /\ response.status # 204
  /\ response.contentLength # Header(<<"0">>)
  /\ response.body.kind \in {"empty", "invalid"}

\* C28: a 2xx response whose body fails JSON parsing is handled as a network
\* error: once response.json() has settled, with attempts left the call is
\* in sleep(min(1000 * 2^a, 10000)) and the next attempt follows that sleep,
\* and on the attempt with index maxRetries the call has failed with a
\* QCKError of status 0 and code NETWORK_ERROR.
C28_ParseFailureIsNetworkError ==
  /\ ParseFails =>
       /\ pc \in {"json", "sleepBackoff", "done"}
       /\ pc # "json" =>
            IF attempt < retries
            THEN /\ pc = "sleepBackoff"
                 /\ LastSleep = "backoff"
                 /\ sleepMs = Min(1000 * Pow2(attempt), 10000)
            ELSE /\ pc = "done"
                 /\ attempt = retries
                 /\ result.kind = "thrown"
                 /\ result.err.name = "QCKError"
                 /\ result.err.status = 0
                 /\ result.err.code = "NETWORK_ERROR"
  /\ \A i \in 1..Len(hist) :
       (hist[i].outcome = "2xx" /\ (i < Len(hist) \/ pc = "fetch")) =>
         /\ hist[i].sleep = "backoff"
         /\ fetchCalls > i

C28_Witness ==
  /\ Settled
  /\ ParseFails
  /\ retries = 2
  /\ attempt = 2
  /\ fetchCalls = 3
  /\ \A i \in 1..3 : hist[i].outcome = "2xx"
  /\ result.err.code = "NETWORK_ERROR"

\* How many of the attempts in h ended with one of the outcomes in `outcomes`.
AttemptsEnding(h, outcomes) == Cardinality({i \in 1..Len(h) : h[i].outcome \in outcomes})
\* The attempts that ended before the one that ended last.
EarlierAttempts == IF hist = <<>> THEN <<>> ELSE SubSeq(hist, 1, Len(hist) - 1)

\* C29: 429 retries and transport-failure retries draw on one attempt
\* budget: whatever the mix of outcomes, at most retries + 1 requests are
\* issued and at most retries + 1 attempts end, and the backoff slept after
\* a connection failure is min(1000 * 2^k, 10000) with k the number of all
\* earlier attempts, those answered with a 429 included.
C29_SharedAttemptBudget ==
  /\ fetchCalls <= retries + 1
  /\ Len(hist) <= retries + 1
  /\ (pc = "sleepBackoff" /\ LastOutcome = "connfail") =>
       /\ attempt = Len(EarlierAttempts)
       /\ sleepMs = Min(1000 * Pow2(AttemptsEnding(EarlierAttempts, {"429"})
                                     + AttemptsEnding(EarlierAttempts,
                                                      {"connfail", "timeout", "2xx"})),
                        10000)

C29_Witness ==
  /\ pc = "sleepBackoff"
  /\ retries = 3
  /\ Len(hist) = 3
  /\ hist[1].outcome = "429"
  /\ hist[2].outcome = "connfail"
  /\ hist[3].outcome = "connfail"
  /\ fetchCalls = 3
  /\ sleepMs = 4000

\* The error of line 162 when no attempt left an error behind.
FallbackRaised ==
  /\ result.kind = "thrown"
  /\ result.err.name = "QCKError"
  /\ result.err.message = "Request failed"
  /\ result.err.code = "UNKNOWN"

\* C30: with retries >= 0 the attempt loop is never left by its bound: the
\* attempt index never passes retries, a settled call settled when its
\* attempt with index `attempt` ended, and the fallback error 'Request
\* failed' with code UNKNOWN is never raised.
C30_SettlesInsideAnAttempt ==
  retries >= 0 =>
    /\ attempt <= retries
    /\ ~FallbackRaised
    /\ Settled =>
         /\ result.kind \in {"returned", "thrown"}
         /\ Len(hist) = attempt + 1
         /\ fetchCalls = attempt + 1

C30_Witness ==
  /\ retries = 2
  /\ Settled
  /\ attempt = 2
  /\ result.kind = "thrown"
  /\ hist[1].outcome = "429"
  /\ hist[2].outcome = "timeout"
  /\ hist[3].outcome = "429"

\* C31: a call returns only when the last attempt it made received a 2xx
\* response; its result is either a returned value or a thrown error, never
\* both; and once the call has returned or thrown it issues no further
\* request, starts no further sleep and keeps its result.
C31_ReturnsOnlyOn2xxAndStaysSettled ==
  /\ [](/\ result.kind = "returned" =>
            /\ Settled
            /\ Ok(response)
            /\ LastOutcome = "2xx"
            /\ fetchCalls = Len(hist)
            /\ result.err = Undefined
        /\ result.kind = "thrown" => Settled /\ result.value = "none"
        /\ Settled <=> result.kind \in {"returned", "thrown"})
  /\ [][Settled =>
          /\ pc' = pc
          /\ result' = result
          /\ fetchCalls' = fetchCalls
          /\ sent' = sent
          /\ sleepCalls' = sleepCalls
          /\ hist' = hist]_vars

C31_Witness ==
  /\ Settled
  /\ result.kind = "returned"
  /\ Len(hist) = 3
  /\ hist[1].outcome = "429"
  /\ hist[2].outcome = "connfail"
  /\ hist[3].outcome = "2xx"
  /\ ~timerArmed

\* The requests of the call whose fetch has not settled: those issued, less
\* the attempts that ended, less the one whose response is being read.
RequestsInFlight ==
  fetchCalls - Len(hist) - (IF pc \in {"json", "mapError"} THEN 1 ELSE 0)

\* C32: within one call the attempts are strictly sequential: at most one
\* request is in flight at any time, none while the call is sleeping, and a
\* request is issued only when every earlier attempt has ended and the
\* sleep the last one started, if any, has been waited for.
C32_AttemptsSequential ==
  /\ [](/\ RequestsInFlight \in {0, 1}
        /\ RequestsInFlight = 1 <=> pc = "fetch"
        /\ Len(sent) = fetchCalls
        /\ Sleeping => RequestsInFlight = 0 /\ LastSleep # "none"
        /\ pc = "fetch" => attempt = Len(hist))
  /\ [][fetchCalls' # fetchCalls =>
          /\ fetchCalls' = fetchCalls + 1
          /\ Len(hist') = fetchCalls
          /\ attempt' = fetchCalls
          /\ IF hist' = <<>> THEN pc = "idle"
             ELSE IF hist'[Len(hist')].sleep # "none" THEN Sleeping /\ hist' = hist
             ELSE pc = "fetch" /\ hist'[Len(hist')].outcome = "timeout"]_vars

C32_Witness ==
  /\ pc = "fetch"
  /\ RequestsInFlight = 1
  /\ fetchCalls = 4
  /\ hist[1].outcome = "timeout"
  /\ hist[2].sleep = "rateLimit"
  /\ hist[3].sleep = "backoff"

\* C33: when a call settles no timeout timer armed by one of its attempts
\* is still pending: the timer of the attempt that ended last has fired or
\* has been cleared.
C33_NoTimerPendingWhenSettled ==
  Settled => ~timerArmed

\* The status and code that the class of error e fixes, if it fixes them.
VariantFixes(e) ==
  CASE e.name = "ValidationError" -> e.status = 400 /\ e.code = "VALIDATION_ERROR"
    [] e.name = "AuthenticationError" -> e.status = 401 /\ e.code = "AUTHENTICATION_ERROR"
    [] e.name = "NotFoundError" -> e.status = 404 /\ e.code = "NOT_FOUND"
    [] e.name = "RateLimitError" -> e.status = 429 /\ e.code = "RATE_LIMIT_ERROR"
    [] OTHER -> TRUE

\* C34: the class of a thrown error fixes its status and code whatever the
\* response body says: ValidationError (400, VALIDATION_ERROR),
\* AuthenticationError (401, AUTHENTICATION_ERROR), NotFoundError (404,
\* NOT_FOUND), RateLimitError (429, RATE_LIMIT_ERROR); a 429 response never
\* reaches mapError, and every RateLimitError a call throws has the message
\* 'Rate limit exceeded'.
C34_VariantFixesStatusAndCode ==
  /\ pc = "mapError" => response.status # 429
  /\ result.kind = "thrown" =>
       /\ VariantFixes(result.err)
       /\ result.err.name = "RateLimitError" =>
            /\ result.err.message = "Rate limit exceeded"
            /\ response.status = 429

C34_Witness ==
  /\ Settled
  /\ result.kind = "thrown"
  /\ result.err.name = "RateLimitError"
  /\ attempt >= 1
  /\ response.status = 429
  /\ response.body.error.present
  /\ response.body.error.message # "Rate limit exceeded"
  /\ response.body.error.code # "RATE_LIMIT_ERROR"

\* C35: every call that was started eventually settles, given that every
\* fetch settles, every body read completes and every sleep completes; and
\* it takes at most retries + 1 attempts and, retries being the non-negative
\* count the configuration asks for, at most retries sleeps.
C35_EveryCallSettles ==
  /\ (pc # "idle") ~> Settled
  /\ [](/\ Len(hist) <= retries + 1
        /\ fetchCalls <= retries + 1
        /\ retries >= 0 => sleepCalls <= retries /\ SleepsIn(hist) <= retries)

C35_Witness ==
  /\ Settled
  /\ retries = 3
  /\ Len(hist) = 4
  /\ sleepCalls = 3
  /\ hist[1].sleep = "backoff"
  /\ hist[2].sleep = "rateLimit"
  /\ hist[3].sleep = "backoff"

=============================================================================
